---- MODULE Spec2Model ----
(***************************************************************************)
(* Model of the stock-chart analyzer of src/Problem_2/solution.js          *)
(* (ChartAnalyzer, PriceMapper, PricePrediction and their utilities).      *)
(*                                                                         *)
(* Numbers.  A JavaScript Number is modelled as a pair <<n, d>>:           *)
(*   d > 0   the exact rational n/d, in lowest terms;                      *)
(*   <<1,0>> Infinity, <<-1,0>> -Infinity, <<0,0>> NaN.                    *)
(* Rounding of doubles is not modelled; the non-finite values and the      *)
(* rules that produce them (x/0, 0/0, Infinity*0, comparisons with NaN)    *)
(* are.  Every zero divisor of the program is +0 (a width, a height, a     *)
(* square root), so the sign of zero is not tracked.                       *)
(***************************************************************************)
EXTENDS Integers, Sequences, FiniteSets, TLC

VARIABLES
    pc,           \* analyze(): the statement the async function is at
    image,        \* ChartAnalyzer.image
    chartBounds,  \* ChartAnalyzer.chartBounds
    lineColor,    \* analyze(): const lineColor
    points,       \* analyze(): let points
    dataPoints,   \* ChartAnalyzer.dataPoints
    error,        \* the Error analyze() threw, "none" otherwise
    mapper,       \* a PriceMapper instance
    predictor,    \* a PricePrediction instance
    call,         \* the function or method invoked last, with its argument
    result        \* what that invocation returned (or the error it threw)

vars == <<pc, image, chartBounds, lineColor, points, dataPoints, error,
          mapper, predictor, call, result>>

analyzerVars == <<pc, image, chartBounds, lineColor, points, dataPoints, error>>

(***************************************************************************)
(* JavaScript Number arithmetic                                            *)
(***************************************************************************)
RECURSIVE Gcd(_, _)
Gcd(a, b) == IF b = 0 THEN a ELSE Gcd(b, a % b)

AbsInt(n) == IF n < 0 THEN -n ELSE n

Norm(n, d) == LET g == Gcd(AbsInt(n), d) IN <<n \div g, d \div g>>

Num(n) == <<n, 1>>

NaN == <<0, 0>>

InfOf(s) == <<s, 0>>

IsNaN(a) == a = NaN

IsFinite(a) == a[2] # 0

SignOf(a) == IF a[1] > 0 THEN 1 ELSE IF a[1] < 0 THEN -1 ELSE 0

Neg(a) == <<-a[1], a[2]>>

Abs(a) == <<AbsInt(a[1]), a[2]>>

Add(a, b) ==
    IF IsFinite(a) /\ IsFinite(b)
    THEN LET l == (a[2] \div Gcd(a[2], b[2])) * b[2]
         IN  Norm(a[1] * (l \div a[2]) + b[1] * (l \div b[2]), l)
    ELSE IF IsNaN(a) \/ IsNaN(b) THEN NaN
    ELSE IF IsFinite(a) THEN b
    ELSE IF IsFinite(b) THEN a
    ELSE IF a = b THEN a ELSE NaN

Sub(a, b) == Add(a, Neg(b))

Mul(a, b) ==
    IF IsFinite(a) /\ IsFinite(b)
    THEN LET g1 == Gcd(AbsInt(a[1]), b[2])
             g2 == Gcd(AbsInt(b[1]), a[2])
         IN  Norm((a[1] \div g1) * (b[1] \div g2), (a[2] \div g2) * (b[2] \div g1))
    ELSE IF IsNaN(a) \/ IsNaN(b) THEN NaN
    ELSE IF SignOf(a) * SignOf(b) = 0 THEN NaN
    ELSE InfOf(SignOf(a) * SignOf(b))

Div(a, b) ==
    IF IsNaN(a) \/ IsNaN(b) THEN NaN
    ELSE IF IsFinite(a) /\ IsFinite(b)
    THEN IF b[1] = 0
         THEN IF a[1] = 0 THEN NaN ELSE InfOf(SignOf(a))
         ELSE Mul(a, IF b[1] > 0 THEN <<b[2], b[1]>> ELSE <<-b[2], -b[1]>>)
    ELSE IF IsFinite(b) THEN InfOf(SignOf(a) * (IF b[1] < 0 THEN -1 ELSE 1))
    ELSE IF IsFinite(a) THEN Num(0)
    ELSE NaN

\* a < b : false as soon as one side is NaN
Lt(a, b) ==
    /\ ~IsNaN(a)
    /\ ~IsNaN(b)
    /\ IF IsFinite(a) /\ IsFinite(b)
       THEN a[1] * b[2] < b[1] * a[2]
       ELSE a # b /\ (a = InfOf(-1) \/ b = InfOf(1))

\* a <= b
Le(a, b) == ~IsNaN(a) /\ ~IsNaN(b) /\ (a = b \/ Lt(a, b))

\* a === b on Numbers
StrictEq(a, b) == ~IsNaN(a) /\ ~IsNaN(b) /\ a = b

RECURSIVE SumSeq(_)
SumSeq(s) == IF s = <<>> THEN Num(0) ELSE Add(SumSeq(SubSeq(s, 1, Len(s) - 1)), s[Len(s)])

(***************************************************************************)
(* CONFIG                                                                  *)
(***************************************************************************)
minLinePoints == 20

smoothingWindow == 5

samplingInterval == 1

minOutlierPoints == 10

\* CONFIG.outlierThreshold = 2.5
outlierThreshold == <<5, 2>>

(***************************************************************************)
(* Utility functions                                                       *)
(***************************************************************************)
linearMap(value, inMin, inMax, outMin, outMax) ==
    IF StrictEq(inMax, inMin)
    THEN outMin
    ELSE Add(Div(Mul(Sub(value, inMin), Sub(outMax, outMin)), Sub(inMax, inMin)), outMin)

\* Array.prototype.sort((a, b) => a - b) on integers
RECURSIVE SortInts(_)
SortInts(arr) ==
    IF arr = <<>> THEN <<>>
    ELSE LET k == CHOOSE i \in 1..Len(arr) : \A j \in 1..Len(arr) : arr[i] <= arr[j]
         IN  <<arr[k]>> \o SortInts(SubSeq(arr, 1, k - 1) \o SubSeq(arr, k + 1, Len(arr)))

\* a median that takes the upper middle element of an even-length array
medianUpperMiddle(arr) ==
    LET sorted == SortInts(arr)
    IN  Num(sorted[(Len(sorted) \div 2) + 1])

\* sorted[mid] of the 0-based source is sorted[mid + 1] here
median(arr) ==
    LET sorted == SortInts(arr)
        mid    == Len(sorted) \div 2
    IN  IF Len(sorted) % 2 = 0
        THEN Div(Add(Num(sorted[mid]), Num(sorted[mid + 1])), Num(2))
        ELSE Num(sorted[mid + 1])

\* standardDeviation(arr) is Math.sqrt of this value.  A square root is not
\* rational in general, so the model keeps the radicand and compares squares:
\* sqrt is increasing on [0, Infinity] and keeps 0, Infinity and NaN.
variance(arr) ==
    LET mean        == Div(SumSeq(arr), Num(Len(arr)))
        squareDiffs == [i \in 1..Len(arr) |-> Mul(Sub(arr[i], mean), Sub(arr[i], mean))]
    IN  Div(SumSeq(squareDiffs), Num(Len(arr)))

(***************************************************************************)
(* Images.  A decoded image is its size, a background pixel, a foreground  *)
(* pixel and, per column, the rows painted with the foreground pixel.      *)
(* Pixels are RGB triples.                                                 *)
(***************************************************************************)
White == <<255, 255, 255>>

Blue == <<0, 0, 255>>

Black == <<0, 0, 0>>

Red == <<255, 0, 0>>

\* Jimp.intToRGBA(image.getPixelColor(px, py))
getPixelColor(img, px, py) == IF py \in img.ink[px] THEN img.fg ELSE img.bg

colorProfiles ==
    [blue  |-> [r |-> <<0, 180>>,   g |-> <<0, 200>>,   b |-> <<80, 255>>],
     red   |-> [r |-> <<150, 255>>, g |-> <<0, 150>>,   b |-> <<0, 150>>],
     green |-> [r |-> <<0, 150>>,   g |-> <<100, 255>>, b |-> <<0, 150>>],
     black |-> [r |-> <<0, 90>>,    g |-> <<0, 90>>,    b |-> <<0, 90>>]]

\* Object.entries(CONFIG.colorProfiles): insertion order
profileNames == <<"blue", "red", "green", "black">>

(***************************************************************************)
(* ChartAnalyzer                                                           *)
(***************************************************************************)
\* Math.floor(width * 0.1), Math.floor(width * 0.8)
detectChartBounds(img) ==
    [x      |-> img.width \div 10,
     y      |-> img.height \div 10,
     width  |-> (img.width * 8) \div 10,
     height |-> (img.height * 8) \div 10]

\* a range check whose upper ends are open
matchesColorProfileOpen(pixel, profile) ==
    /\ pixel[1] >= profile.r[1] /\ pixel[1] < profile.r[2]
    /\ pixel[2] >= profile.g[1] /\ pixel[2] < profile.g[2]
    /\ pixel[3] >= profile.b[1] /\ pixel[3] < profile.b[2]

\* pixel is <<r, g, b>> or <<r, g, b, a>>
matchesColorProfile(pixel, profile) ==
    /\ pixel[1] >= profile.r[1] /\ pixel[1] <= profile.r[2]
    /\ pixel[2] >= profile.g[1] /\ pixel[2] <= profile.g[2]
    /\ pixel[3] >= profile.b[1] /\ pixel[3] <= profile.b[2]

\* the coordinates from, from + step, ... below from + extent
Strided(from, extent, step) ==
    { from + k * step : k \in { j \in 0..extent : j * step < extent } }

colorCounts(img, b) ==
    [c \in DOMAIN colorProfiles |->
        Cardinality({ q \in Strided(b.x, b.width, samplingInterval * 5)
                             \X Strided(b.y, b.height, samplingInterval * 5) :
                        matchesColorProfile(getPixelColor(img, q[1], q[2]), colorProfiles[c]) })]

\* a reduce that replaces max on an equal count too
RECURSIVE DetectFromLast(_, _, _)
DetectFromLast(counts, i, max) ==
    IF i > Len(profileNames) THEN max
    ELSE DetectFromLast(counts, i + 1,
                        IF counts[profileNames[i]] >= max.count
                        THEN [color |-> profileNames[i], count |-> counts[profileNames[i]]]
                        ELSE max)

\* the reduce over Object.entries(colorCounts) from entry i on
RECURSIVE DetectFrom(_, _, _)
DetectFrom(counts, i, max) ==
    IF i > Len(profileNames) THEN max
    ELSE DetectFrom(counts, i + 1,
                    IF counts[profileNames[i]] > max.count
                    THEN [color |-> profileNames[i], count |-> counts[profileNames[i]]]
                    ELSE max)

detectLineColor(img, b) ==
    DetectFrom(colorCounts(img, b), 1, [color |-> "blue", count |-> 0]).color

\* the rows of column px that match, in scan order (top to bottom)
columnPoints(img, b, profile, px) ==
    LET matches(py) == matchesColorProfile(getPixelColor(img, px, py), profile)
    IN  SelectSeq([i \in 1..b.height |-> b.y + i - 1], matches)

\* a scan that emits one point per matching pixel
RECURSIVE ExtractEveryPixel(_, _, _, _)
ExtractEveryPixel(img, b, profile, px) ==
    IF px >= b.x + b.width THEN <<>>
    ELSE LET column == columnPoints(img, b, profile, px)
         IN  [i \in 1..Len(column) |-> [x |-> px, y |-> Num(column[i])]]
               \o ExtractEveryPixel(img, b, profile, px + samplingInterval)

\* the column loop of extractDataPoints from column px on
RECURSIVE ExtractFrom(_, _, _, _)
ExtractFrom(img, b, profile, px) ==
    IF px >= b.x + b.width THEN <<>>
    ELSE LET column == columnPoints(img, b, profile, px)
         IN  (IF Len(column) > 0 THEN <<[x |-> px, y |-> median(column)]>> ELSE <<>>)
               \o ExtractFrom(img, b, profile, px + samplingInterval)

extractDataPoints(img, b, colorName) == ExtractFrom(img, b, colorProfiles[colorName], b.x)

\* the square of zScore = Math.abs((p.y - mean) / stdDev)
zScoreSquared(y, mean, var) == Div(Mul(Sub(y, mean), Sub(y, mean)), var)

removeOutliers(pts) ==
    IF Len(pts) < minOutlierPoints THEN pts
    ELSE LET yValues == [i \in 1..Len(pts) |-> pts[i].y]
             mean    == Div(SumSeq(yValues), Num(Len(yValues)))
             var     == variance(yValues)
             keep(p) == Lt(zScoreSquared(p.y, mean, var),
                           Mul(outlierThreshold, outlierThreshold))
         IN  SelectSeq(pts, keep)

Min(a, b) == IF a < b THEN a ELSE b

Max(a, b) == IF a > b THEN a ELSE b

\* a smoothing that divides every window sum by the full window size
smoothDataPadded(pts, window) ==
    IF Len(pts) < window THEN pts
    ELSE LET halfWindow == window \div 2
         IN  [i \in 1..Len(pts) |->
                LET start == Max(0, (i - 1) - halfWindow)
                    end   == Min(Len(pts), (i - 1) + halfWindow + 1)
                    slice == SubSeq(pts, start + 1, end)
                IN  [x |-> pts[i].x,
                     y |-> Div(SumSeq([k \in 1..Len(slice) |-> slice[k].y]), Num(window))]]

\* smoothData with CONFIG.smoothingWindow = window; points.slice(start, end)
\* of the 0-based source is SubSeq(pts, start + 1, end)
smoothDataWith(pts, window) ==
    IF Len(pts) < window THEN pts
    ELSE LET halfWindow == window \div 2
         IN  [i \in 1..Len(pts) |->
                LET start == Max(0, (i - 1) - halfWindow)
                    end   == Min(Len(pts), (i - 1) + halfWindow + 1)
                    slice == SubSeq(pts, start + 1, end)
                    avgY  == Div(SumSeq([k \in 1..Len(slice) |-> slice[k].y]),
                                 Num(Len(slice)))
                IN  [x |-> pts[i].x, y |-> avgY]]

smoothData(pts) == smoothDataWith(pts, smoothingWindow)

insufficientAtMin(pts) == Len(pts) <= minLinePoints

\* the test of analyze: points.length < CONFIG.minLinePoints
insufficient(pts) == Len(pts) < minLinePoints

(***************************************************************************)
(* PriceMapper                                                             *)
(***************************************************************************)
pixelToDate(m, pixelX) ==
    LET normalizedX == Div(Sub(pixelX, Num(m.chartBounds.x)), Num(m.chartBounds.width))
    IN  linearMap(normalizedX, Num(0), Num(1), Num(m.dateRange.start), Num(m.dateRange.end))

pixelToPriceNotInverted(m, pixelY) ==
    LET normalizedY == Div(Sub(pixelY, Num(m.chartBounds.y)), Num(m.chartBounds.height))
    IN  linearMap(normalizedY, Num(0), Num(1),
                  Num(m.priceRange.min), Num(m.priceRange.max))

pixelToPrice(m, pixelY) ==
    LET normalizedY == Div(Sub(pixelY, Num(m.chartBounds.y)), Num(m.chartBounds.height))
    IN  linearMap(Sub(Num(1), normalizedY), Num(0), Num(1),
                  Num(m.priceRange.min), Num(m.priceRange.max))

\* the date field (a Date of the same timestamp) carries nothing more
getMappedData(m) ==
    [i \in 1..Len(m.dataPoints) |->
        [timestamp |-> pixelToDate(m, Num(m.dataPoints[i].x)),
         price     |-> pixelToPrice(m, m.dataPoints[i].y)]]

\* the for..of loop of lookupPrice from element i on: the index (1-based) of
\* closest when the loop ends.  mapped.indexOf(closest) is that index, the
\* elements of mapped being distinct objects.
RECURSIVE ClosestLastTie(_, _, _, _, _)
ClosestLastTie(mapped, target, i, closest, minDiff) ==
    IF i > Len(mapped) THEN closest
    ELSE LET diff == Abs(Sub(mapped[i].timestamp, target))
         IN  IF Le(diff, minDiff)
             THEN ClosestLastTie(mapped, target, i + 1, i, diff)
             ELSE ClosestLastTie(mapped, target, i + 1, closest, minDiff)

RECURSIVE ClosestFrom(_, _, _, _, _)
ClosestFrom(mapped, target, i, closest, minDiff) ==
    IF i > Len(mapped) THEN closest
    ELSE LET diff == Abs(Sub(mapped[i].timestamp, target))
         IN  IF Lt(diff, minDiff)
             THEN ClosestFrom(mapped, target, i + 1, i, diff)
             ELSE ClosestFrom(mapped, target, i + 1, closest, minDiff)

TypeError == "TypeError"

\* lookupPrice with the ratio taken over the step from the previous point
\* to the closest one
lookupPriceOverStep(m, targetTimestamp) ==
    LET mapped == getMappedData(m)
    IN  IF Len(mapped) = 0
        THEN TypeError
        ELSE LET index == ClosestFrom(mapped, targetTimestamp, 1, 1,
                              Abs(Sub(mapped[1].timestamp, targetTimestamp)))
             IN  IF /\ index > 1
                    /\ index < Len(mapped)
                    /\ Le(mapped[index - 1].timestamp, targetTimestamp)
                    /\ Le(targetTimestamp, mapped[index + 1].timestamp)
                 THEN LET prev  == mapped[index - 1]
                          next  == mapped[index + 1]
                          ratio == Div(Sub(targetTimestamp, prev.timestamp),
                                       Sub(mapped[index].timestamp, prev.timestamp))
                      IN  Add(prev.price, Mul(ratio, Sub(next.price, prev.price)))
                 ELSE mapped[index].price

lookupPrice(m, targetTimestamp) ==
    LET mapped == getMappedData(m)
    IN  IF Len(mapped) = 0
        THEN TypeError      \* mapped[0].timestamp of undefined
        ELSE LET index == ClosestFrom(mapped, targetTimestamp, 1, 1,
                              Abs(Sub(mapped[1].timestamp, targetTimestamp)))
             IN  IF /\ index > 1
                    /\ index < Len(mapped)
                    /\ Le(mapped[index - 1].timestamp, targetTimestamp)
                    /\ Le(targetTimestamp, mapped[index + 1].timestamp)
                 THEN LET prev  == mapped[index - 1]
                          next  == mapped[index + 1]
                          ratio == Div(Sub(targetTimestamp, prev.timestamp),
                                       Sub(next.timestamp, prev.timestamp))
                      IN  Add(prev.price, Mul(ratio, Sub(next.price, prev.price)))
                 ELSE mapped[index].price

(***************************************************************************)
(* Direct use of a PriceMapper: an instance is constructed with any        *)
(* fields and one of its methods is invoked.  The methods read only the    *)
(* fields of the instance and write none, so an invocation on a fresh      *)
(* instance stands for every invocation.                                   *)
(***************************************************************************)
MaxPts == 3

MaxT == 9

PixelXs == 0..4

PixelYs == 0..2

Targets == (0 - 5)..MaxT

Idle == "idle"

None == "none"

\* the elements of a set of integers in increasing order
RECURSIVE SortedSeq(_)
SortedSeq(S) ==
    IF S = {} THEN <<>>
    ELSE LET lo == CHOOSE a \in S : \A b \in S : a <= b
         IN  <<lo>> \o SortedSeq(S \ {lo})

\* pixel-space points as extractDataPoints yields them: x strictly increasing
PointSeqs ==
    UNION { { [i \in 1..Cardinality(S) |-> [x |-> SortedSeq(S)[i], y |-> Num(ys[i])]] :
                ys \in [1..Cardinality(S) -> PixelYs] } :
            S \in { T \in SUBSET PixelXs : Cardinality(T) <= MaxPts } }

MapperSettings ==
    { [chartBounds |-> [x |-> 0, y |-> 0, width |-> 4, height |-> 2],
       dateRange |-> [start |-> 0, end |-> 8], priceRange |-> [min |-> 0, max |-> 4]],
      [chartBounds |-> [x |-> 1, y |-> 1, width |-> 2, height |-> 4],
       dateRange |-> [start |-> 1, end |-> 5], priceRange |-> [min |-> 10, max |-> 20]],
      [chartBounds |-> [x |-> 0, y |-> 0, width |-> 4, height |-> 2],
       dateRange |-> [start |-> 3, end |-> 3], priceRange |-> [min |-> 4, max |-> 0]],
      [chartBounds |-> [x |-> 1, y |-> 0, width |-> 0, height |-> 2],
       dateRange |-> [start |-> 0, end |-> 8], priceRange |-> [min |-> 0, max |-> 4]],
      [chartBounds |-> [x |-> 0, y |-> 1, width |-> 4, height |-> 0],
       dateRange |-> [start |-> 0, end |-> 8], priceRange |-> [min |-> 0, max |-> 4]] }

NewPriceMapper(pts, bounds, dates, prices) ==
    [dataPoints |-> pts, chartBounds |-> bounds, dateRange |-> dates, priceRange |-> prices]

\* the mappers of the two worked examples: the series [(t=0,p=10),(t=10,p=20)]
\* and the pixel {x:50, y:5} under bounds {x:0, width:100, y:0, height:10}
ExampleMappers ==
    { NewPriceMapper(<<[x |-> 0, y |-> Num(10)], [x |-> 10, y |-> Num(0)]>>,
                     [x |-> 0, y |-> 0, width |-> 10, height |-> 10],
                     [start |-> 0, end |-> 10], [min |-> 10, max |-> 20]),
      NewPriceMapper(<<[x |-> 50, y |-> Num(5)]>>,
                     [x |-> 0, y |-> 0, width |-> 100, height |-> 10],
                     [start |-> 0, end |-> 100], [min |-> 0, max |-> 10]) }

Mappers ==
    { NewPriceMapper(pts, s.chartBounds, s.dateRange, s.priceRange) :
        pts \in PointSeqs, s \in MapperSettings } \cup ExampleMappers

AnalyzerIdle ==
    /\ pc = Idle
    /\ image = None
    /\ chartBounds = None
    /\ lineColor = None
    /\ points = <<>>
    /\ dataPoints = <<>>
    /\ error = None

Fresh == call.fn = "PriceMapper"

InitMapper ==
    /\ AnalyzerIdle
    /\ predictor = None
    /\ mapper \in Mappers
    /\ call = [fn |-> "PriceMapper", arg |-> None]
    /\ result = None

LookupPrice ==
    /\ Fresh
    /\ \E t \in Targets :
        /\ call' = [fn |-> "lookupPrice", arg |-> t]
        /\ result' = lookupPrice(mapper, Num(t))
    /\ UNCHANGED <<analyzerVars, mapper, predictor>>

PixelToDate ==
    /\ Fresh
    /\ \E px \in PixelXs :
        /\ call' = [fn |-> "pixelToDate", arg |-> px]
        /\ result' = pixelToDate(mapper, Num(px))
    /\ UNCHANGED <<analyzerVars, mapper, predictor>>

PixelToPrice ==
    /\ Fresh
    /\ \E py \in PixelYs :
        /\ call' = [fn |-> "pixelToPrice", arg |-> py]
        /\ result' = pixelToPrice(mapper, Num(py))
    /\ UNCHANGED <<analyzerVars, mapper, predictor>>

GetMappedData ==
    /\ Fresh
    /\ call' = [fn |-> "getMappedData", arg |-> <<>>]
    /\ result' = getMappedData(mapper)
    /\ UNCHANGED <<analyzerVars, mapper, predictor>>

NextMapper == LookupPrice \/ PixelToDate \/ PixelToPrice \/ GetMappedData

SpecMapper == InitMapper /\ [][NextMapper]_vars

(***************************************************************************)
(* Properties of PriceMapper, checked under SpecMapper                     *)
(***************************************************************************)
Series == getMappedData(mapper)

FiniteSeries == LET s == Series IN \A i \in 1..Len(s) : IsFinite(s[i].timestamp)

LookupDone == call.fn = "lookupPrice"

Target == Num(call.arg)

\* the price on the straight line through points a and b at timestamp t
Interpolated(a, b, t) ==
    Add(a.price, Mul(Div(Sub(t, a.timestamp), Sub(b.timestamp, a.timestamp)),
                     Sub(b.price, a.price)))

\* C1: on a series of exactly two points (t0,p0),(t1,p1), t0 < t1, a lookup
\* at t with t0 < t < t1 returns the price interpolated between the two.
C1_TwoPointInterpolation ==
    LookupDone
    => LET s == Series
       IN  (/\ Len(s) = 2
            /\ IsFinite(s[1].timestamp)
            /\ IsFinite(s[2].timestamp)
            /\ Lt(s[1].timestamp, Target)
            /\ Lt(Target, s[2].timestamp))
           => result = Interpolated(s[1], s[2], Target)

\* the first point of series s at minimal distance from timestamp t
NearestFirst(s, t) ==
    LET d == [i \in 1..Len(s) |-> Abs(Sub(s[i].timestamp, t))]
    IN  CHOOSE i \in 1..Len(s) :
            /\ \A j \in 1..Len(s) : Le(d[i], d[j])
            /\ \A j \in 1..(i - 1) : Lt(d[i], d[j])

\* point c of s has a predecessor and a successor, and they bracket t
Bracketed(s, t, c) ==
    /\ c > 1
    /\ c < Len(s)
    /\ Le(s[c - 1].timestamp, t)
    /\ Le(t, s[c + 1].timestamp)

IncreasingSeries(s) ==
    /\ \A i \in 1..Len(s) : IsFinite(s[i].timestamp) /\ IsFinite(s[i].price)
    /\ \A i \in 1..(Len(s) - 1) : Lt(s[i].timestamp, s[i + 1].timestamp)

\* C29: for every non-empty series with strictly increasing timestamps and
\* every target timestamp the price lookupPrice returns lies between the
\* minimum and the maximum price of the series, both included.
C29_WithinObservedPrices ==
    (LookupDone /\ Len(mapper.dataPoints) > 0 /\ IncreasingSeries(Series))
    => LET s == Series
       IN  /\ \E i \in 1..Len(s) : Le(s[i].price, result)
           /\ \E j \in 1..Len(s) : Le(result, s[j].price)

\* an interpolated price that is the price of no point of the series, on a
\* series whose middle point is its highest
C29_Witness ==
    /\ LookupDone
    /\ Len(mapper.dataPoints) = 3
    /\ IncreasingSeries(Series)
    /\ LET s == Series
       IN  /\ Bracketed(s, Target, NearestFirst(s, Target))
           /\ \A i \in 1..3 : result # s[i].price
           /\ Lt(s[1].price, s[2].price)
           /\ Lt(s[3].price, s[2].price)

\* C3: with chartBounds.width = 0 pixelToDate returns dateRange.start, and
\* with chartBounds.height = 0 pixelToPrice returns priceRange.min.
C3_DegenerateBoundsGuarded ==
    /\ (call.fn = "pixelToDate" /\ mapper.chartBounds.width = 0)
          => result = Num(mapper.dateRange.start)
    /\ (call.fn = "pixelToPrice" /\ mapper.chartBounds.height = 0)
          => result = Num(mapper.priceRange.min)

\* the claimed maps, over the integers: for a pixel x the timestamp
\* (start*w + (x - bx)*(end - start)) / w, and for a pixel y = yn/yd the price
\* (min*h*yd + (h*yd - (yn - by*yd))*(max - min)) / (h*yd)
ClaimedTimestamp(m, px) ==
    Norm(m.dateRange.start * m.chartBounds.width
           + (px - m.chartBounds.x) * (m.dateRange.end - m.dateRange.start),
         m.chartBounds.width)

ClaimedPrice(m, py) ==
    Norm(m.priceRange.min * m.chartBounds.height * py[2]
           + (m.chartBounds.height * py[2] - (py[1] - m.chartBounds.y * py[2]))
               * (m.priceRange.max - m.priceRange.min),
         m.chartBounds.height * py[2])

TheExamplePixel == mapper.dataPoints = <<[x |-> 50, y |-> Num(5)]>>

\* C6: for bounds of positive width and height the pixel-to-domain conversion
\* is the linear map with vertical inversion; the top edge of the bounds maps
\* to priceRange.max and the bottom edge to priceRange.min; the pixel
\* {x:50, y:5} of the example maps to {timestamp: 50, price: 5}.
C6_PixelToDomainLinear ==
    (mapper.chartBounds.width > 0 /\ mapper.chartBounds.height > 0)
    => /\ call.fn = "getMappedData"
            => /\ Len(result) = Len(mapper.dataPoints)
               /\ \A i \in 1..Len(result) :
                     /\ result[i].timestamp = ClaimedTimestamp(mapper, mapper.dataPoints[i].x)
                     /\ result[i].price = ClaimedPrice(mapper, mapper.dataPoints[i].y)
               /\ TheExamplePixel
                     => result = <<[timestamp |-> Num(50), price |-> Num(5)]>>
       /\ (call.fn = "pixelToPrice" /\ call.arg = mapper.chartBounds.y)
            => result = Num(mapper.priceRange.max)
       /\ (call.fn = "pixelToPrice"
             /\ call.arg = mapper.chartBounds.y + mapper.chartBounds.height)
            => result = Num(mapper.priceRange.min)

\* the example pixel was converted under the example's ranges and bounds
C6_Witness ==
    /\ call.fn = "getMappedData"
    /\ TheExamplePixel
    /\ mapper.chartBounds = [x |-> 0, y |-> 0, width |-> 100, height |-> 10]
    /\ mapper.dateRange = [start |-> 0, end |-> 100]
    /\ mapper.priceRange = [min |-> 0, max |-> 10]
    /\ result = <<[timestamp |-> Num(50), price |-> Num(5)]>>

(***************************************************************************)
(* analyze(): one ChartAnalyzer run, statement by statement.  The images   *)
(* are synthetic charts: one stroke of the foreground pixel on a plain     *)
(* background, flat, rising or stepped, of some thickness, possibly with   *)
(* a run of columns left blank and possibly with one stray pixel.          *)
(***************************************************************************)
MaxThick == 3

ImageWidths == {24, 25, 30}

ImageHeights == {10, 20}

Shapes == {"flat", "rise", "step"}

GapLengths == {0, 1, 6}

StrayModes == {"none", "add", "move"}

Foregrounds == {Blue, Black}

LineRow(w, h, shape, px) ==
    CASE shape = "flat" -> h \div 2
      [] shape = "rise" -> (h - 1) - ((px * (h - 1)) \div (w - 1))
      [] shape = "step" -> IF px < w \div 2 THEN (h \div 2) - 1 ELSE (h \div 2) + 1

LineImage(w, h, fg, shape, thick, gap, stray) ==
    [width |-> w, height |-> h, bg |-> White, fg |-> fg,
     ink |-> [px \in 0..(w - 1) |->
                LET top    == LineRow(w, h, shape, px)
                    stroke == IF px >= w \div 2 /\ px < (w \div 2) + gap
                              THEN {}
                              ELSE (top..(top + thick - 1)) \cap (0..(h - 1))
                IN  IF px # w \div 4 \/ stray = "none" THEN stroke
                    ELSE IF stray = "add" THEN stroke \cup {h \div 10}
                    ELSE {h \div 10}]]

Images ==
    { LineImage(w, h, fg, shape, thick, gap, stray) :
        w \in ImageWidths, h \in ImageHeights, fg \in Foregrounds, shape \in Shapes,
        thick \in 1..MaxThick, gap \in GapLengths, stray \in StrayModes }

Init ==
    /\ pc = "load"
    /\ image = None
    /\ chartBounds = None
    /\ lineColor = None
    /\ points = <<>>
    /\ dataPoints = <<>>
    /\ error = None
    /\ mapper = None
    /\ predictor = None
    /\ call = [fn |-> "analyze", arg |-> None]
    /\ result = None

\* await this.load(): Jimp.read decodes the file or fails
Load ==
    /\ pc = "load"
    /\ \/ \E img \in Images :
            /\ image' = img
            /\ pc' = "detectChartBounds"
            /\ error' = error
       \/ /\ error' = "Failed to load image"
          /\ pc' = "failed"
          /\ image' = image
    /\ UNCHANGED <<chartBounds, lineColor, points, dataPoints, mapper, predictor, call, result>>

DetectChartBounds ==
    /\ pc = "detectChartBounds"
    /\ chartBounds' = detectChartBounds(image)
    /\ pc' = "detectLineColor"
    /\ UNCHANGED <<image, lineColor, points, dataPoints, error, mapper, predictor, call, result>>

DetectLineColor ==
    /\ pc = "detectLineColor"
    /\ lineColor' = detectLineColor(image, chartBounds)
    /\ pc' = "extractDataPoints"
    /\ UNCHANGED <<image, chartBounds, points, dataPoints, error, mapper, predictor, call, result>>

ExtractDataPoints ==
    /\ pc = "extractDataPoints"
    /\ points' = extractDataPoints(image, chartBounds, lineColor)
    /\ pc' = "checkPoints"
    /\ UNCHANGED <<image, chartBounds, lineColor, dataPoints, error, mapper, predictor, call, result>>

CheckPoints ==
    /\ pc = "checkPoints"
    /\ IF insufficient(points)
       THEN error' = "Insufficient data points detected" /\ pc' = "failed"
       ELSE error' = error /\ pc' = "removeOutliers"
    /\ UNCHANGED <<image, chartBounds, lineColor, points, dataPoints, mapper, predictor, call, result>>

\* the two filters applied in the reverse order
SmoothBeforeRemoveOutliers ==
    /\ pc = "removeOutliers"
    /\ points' = removeOutliers(smoothData(points))
    /\ pc' = "return"
    /\ UNCHANGED <<image, chartBounds, lineColor, dataPoints, error, mapper, predictor, call, result>>

RemoveOutliers ==
    /\ pc = "removeOutliers"
    /\ points' = removeOutliers(points)
    /\ pc' = "smoothData"
    /\ UNCHANGED <<image, chartBounds, lineColor, dataPoints, error, mapper, predictor, call, result>>

SmoothData ==
    /\ pc = "smoothData"
    /\ points' = smoothData(points)
    /\ pc' = "return"
    /\ UNCHANGED <<image, chartBounds, lineColor, dataPoints, error, mapper, predictor, call, result>>

\* this.dataPoints = points; return points
Return ==
    /\ pc = "return"
    /\ dataPoints' = points
    /\ result' = points
    /\ pc' = "done"
    /\ UNCHANGED <<image, chartBounds, lineColor, points, error, mapper, predictor, call>>

Next ==
    \/ Load
    \/ DetectChartBounds
    \/ DetectLineColor
    \/ ExtractDataPoints
    \/ CheckPoints
    \/ RemoveOutliers
    \/ SmoothData
    \/ Return

Spec == Init /\ [][Next]_vars

(***************************************************************************)
(* Properties of analyze(), checked under Spec                             *)
(***************************************************************************)
\* the trace extractDataPoints returned in this run
RawTrace == extractDataPoints(image, chartBounds, lineColor)

Extracted ==
    pc \in {"checkPoints", "removeOutliers", "smoothData", "return", "done"}
      \/ (pc = "failed" /\ error = "Insufficient data points detected")

YValues(pts) == [i \in 1..Len(pts) |-> pts[i].y]

Mean(ys) == Div(SumSeq(ys), Num(Len(ys)))

\* every y within one population standard deviation of the mean:
\* (y - mean)^2 <= variance
WithinOneStdDev(pts) ==
    LET mean == Mean(YValues(pts))
        var  == variance(YValues(pts))
    IN  \A i \in 1..Len(pts) :
            Le(Mul(Sub(pts[i].y, mean), Sub(pts[i].y, mean)), var)

\* C4: when every y-value lies within one standard deviation of the mean,
\* removeOutliers returns its input, whatever its length and also when all
\* y-values are equal.
C4_CleanDataUnchanged ==
    pc = "smoothData"
    => LET raw == RawTrace IN WithinOneStdDev(raw) => points = raw

\* C7: analyze fails with the insufficient-data error exactly when the raw
\* extracted trace has fewer than minLinePoints points; the test precedes
\* outlier rejection and smoothing; on failure nothing is returned or stored.
C7_InsufficientIffRawBelowMin ==
    /\ (pc = "failed" /\ error = "Insufficient data points detected")
          => /\ Len(RawTrace) < minLinePoints
             /\ dataPoints = <<>>
             /\ result = None
    /\ pc \in {"removeOutliers", "smoothData", "return", "done"}
          => /\ Len(RawTrace) >= minLinePoints
             /\ error = None
    /\ pc = "done" => result = smoothData(removeOutliers(RawTrace)) /\ dataPoints = result

\* a run that passed the test on the raw trace and returned fewer points than
\* the minimum, outlier rejection having dropped some
C7_Witness ==
    /\ pc = "done"
    /\ Len(RawTrace) = minLinePoints
    /\ Len(result) < minLinePoints
    /\ Len(result) > 0

StrictlyIncreasingX(pts) == \A i \in 1..(Len(pts) - 1) : pts[i].x < pts[i + 1].x

ScannedColumns == Strided(chartBounds.x, chartBounds.width, samplingInterval)

\* C9: extractDataPoints emits at most one point per scanned column, with x
\* strictly increasing; removeOutliers and smoothData keep x strictly
\* increasing, and so does the sequence analyze returns.
C9_OnePointPerColumn ==
    /\ Extracted
          => LET raw == RawTrace
             IN  /\ Len(raw) <= Cardinality(ScannedColumns)
                 /\ \A i \in 1..Len(raw) : raw[i].x \in ScannedColumns
                 /\ StrictlyIncreasingX(raw)
                 /\ StrictlyIncreasingX(points)
                 /\ pc = "checkPoints" => points = raw
    /\ pc = "done" => StrictlyIncreasingX(result) /\ StrictlyIncreasingX(dataPoints)

\* a completed run over a stroke several pixels thick, with a scanned column
\* that gave no point
C9_Witness ==
    /\ pc = "done"
    /\ Len(result) >= minLinePoints
    /\ Len(RawTrace) < Cardinality(ScannedColumns)
    /\ \E px \in ScannedColumns :
          Len(columnPoints(image, chartBounds, colorProfiles[lineColor], px)) > 1

\* C28: whenever analyze completes without raising an error the sequence it
\* returns is non-empty, for every image whose extracted trace has at least
\* minLinePoints points, a perfectly horizontal line included.
C28_ReturnsNonEmpty ==
    (pc = "done" /\ Len(RawTrace) >= minLinePoints) => Len(result) > 0

\* the statements of analyze in program order
StageOrder ==
    <<"load", "detectChartBounds", "detectLineColor", "extractDataPoints", "checkPoints",
      "removeOutliers", "smoothData", "return", "done">>

StageIndex(p) == CHOOSE i \in 1..Len(StageOrder) : StageOrder[i] = p

After(p) == { StageOrder[i] : i \in (StageIndex(p) + 1)..Len(StageOrder) }

\* what each variable holds once the stage that assigns it has run
StagesComposed ==
    /\ pc \in After("detectChartBounds") => chartBounds = detectChartBounds(image)
    /\ pc \in After("detectLineColor") => lineColor = detectLineColor(image, chartBounds)
    /\ pc \in {"checkPoints", "removeOutliers"}
          => points = extractDataPoints(image, chartBounds, lineColor)
    /\ pc = "smoothData"
          => points = removeOutliers(extractDataPoints(image, chartBounds, lineColor))
    /\ pc \in {"return", "done"}
          => points = smoothData(removeOutliers(extractDataPoints(image, chartBounds, lineColor)))
    /\ pc = "done"
          => LET bounds == detectChartBounds(image)
             IN  result = smoothData(removeOutliers(
                              extractDataPoints(image, bounds, detectLineColor(image, bounds))))

\* a step runs the stage the run is at and moves to the next one, or fails
\* the run at the image load or at the test on the raw trace
StageStep ==
    /\ pc \in { StageOrder[i] : i \in 1..(Len(StageOrder) - 1) }
    /\ \/ pc' = StageOrder[StageIndex(pc) + 1]
       \/ pc \in {"load", "checkPoints"} /\ pc' = "failed"

\* C14: analyze runs bounds detection, colour detection, trace extraction,
\* outlier rejection and smoothing in this order, each once; its result is
\* smoothData(removeOutliers(extractDataPoints(image, bounds, colour))) with
\* the bounds and the colour detected on the image: smoothing is applied to
\* the outlier-filtered sequence, never the reverse.
C14_FixedStageOrder == [](StagesComposed) /\ [][StageStep]_vars

\* a completed run in which the order mattered: rejecting outliers after
\* smoothing would have given another sequence
C14_Witness ==
    /\ pc = "done"
    /\ Len(result) < Len(RawTrace)
    /\ result # removeOutliers(smoothData(RawTrace))

(***************************************************************************)
(* Direct use of the ChartAnalyzer methods: extractDataPoints on an        *)
(* analyzer whose image and chartBounds fields are set to any image and    *)
(* any rectangle inside it, removeOutliers on any point sequence.          *)
(***************************************************************************)
MaxUnitRows == 5

MaxOutlierPts == 11

\* two columns; any rows of the first painted, the second blank or one pixel
UnitImages ==
    { [width |-> 2, height |-> MaxUnitRows, bg |-> White, fg |-> fg,
       ink |-> [px \in 0..1 |-> IF px = 0 THEN rows ELSE other]] :
        fg \in {Blue, Red}, rows \in SUBSET (0..(MaxUnitRows - 1)), other \in {{}, {2}} }

UnitBounds ==
    { [x |-> 0, y |-> 0, width |-> 2, height |-> MaxUnitRows],
      [x |-> 0, y |-> 1, width |-> 2, height |-> 3],
      [x |-> 1, y |-> 0, width |-> 1, height |-> MaxUnitRows] }

\* the column of the worked example: matching rows {10, 12, 14, 100}
ExampleColumnImage ==
    [width |-> 3, height |-> 110, bg |-> White, fg |-> Blue,
     ink |-> [px \in 0..2 |-> IF px = 1 THEN {10, 12, 14, 100} ELSE {}]]

ExampleColumnBounds == [x |-> 0, y |-> 0, width |-> 3, height |-> 110]

\* point sequences of 9 to MaxOutlierPts points, x increasing, y of every
\* point but the last 0 or 1, y of the last any of 0, 1, 2, 7
OutlierInputs ==
    UNION { { [i \in 1..n |-> [x |-> i, y |-> Num(IF i = n THEN last ELSE ys[i])]] :
                ys \in [1..(n - 1) -> {0, 1}], last \in {0, 1, 2, 7} } :
            n \in (minOutlierPoints - 1)..MaxOutlierPts }

MaxSmoothPts == 6

\* the window sizes smoothData is exercised with: the shipped value of
\* CONFIG.smoothingWindow and the one of the worked example
SmoothingWindows == {smoothingWindow, 3}

\* the heights [0,1,2,3,4] of the worked example
ExampleHeights == [i \in 1..5 |-> [x |-> 10 + i, y |-> Num(i - 1)]]

\* point sequences of 0 to MaxSmoothPts points, x increasing, y any of 0, 1, 4
SmoothInputs ==
    UNION { { [i \in 1..n |-> [x |-> 2 * i, y |-> Num(ys[i])]] : ys \in [1..n -> {0, 1, 4}] } :
            n \in 0..MaxSmoothPts } \cup {ExampleHeights}

MaxSide == 12

\* an image of one plain colour
PlainImage(w, h) ==
    [width |-> w, height |-> h, bg |-> White, fg |-> Blue, ink |-> [px \in 0..(w - 1) |-> {}]]

Green == <<0, 255, 0>>

\* a pixel inside the blue and the black profile
Navy == <<0, 0, 85>>

\* a pixel inside the red and the green profile
Olive == <<150, 120, 0>>

DetectPixels == {White, Blue, Red, Green, Black, Navy, Olive}

\* the pixels detectLineColor samples in a 10x6 image under full bounds
SamplePositions == {<<0, 0>>, <<5, 0>>, <<0, 5>>, <<5, 5>>}

\* 10x6 images of two colours, any of the sampled pixels in the second
DetectImages ==
    { [width |-> 10, height |-> 6, bg |-> bg, fg |-> fg,
       ink |-> [px \in 0..9 |-> { py \in 0..5 : <<px, py>> \in painted }]] :
        bg \in DetectPixels, fg \in DetectPixels, painted \in SUBSET SamplePositions }

DetectBounds ==
    { [x |-> 0, y |-> 0, width |-> 10, height |-> 6],
      [x |-> 5, y |-> 0, width |-> 5, height |-> 6],
      [x |-> 0, y |-> 0, width |-> 0, height |-> 6] }

\* channel values at and next to the ends of the profile ranges
ChannelValues == {0, 79, 80, 90, 91, 99, 100, 150, 151, 180, 181, 200, 201, 255}

AlphaValues == {0, 255}

InitUtil ==
    /\ AnalyzerIdle
    /\ mapper = None
    /\ predictor = None
    /\ call = [fn |-> "ChartAnalyzer", arg |-> None]
    /\ result = None

ExtractDataPointsCall ==
    /\ call.fn = "ChartAnalyzer"
    /\ \E colorName \in {"blue", "red"} :
       \E s \in ((UnitImages \X UnitBounds) \cup {<<ExampleColumnImage, ExampleColumnBounds>>}) :
          /\ image' = s[1]
          /\ chartBounds' = s[2]
          /\ call' = [fn |-> "extractDataPoints", arg |-> colorName]
          /\ result' = extractDataPoints(s[1], s[2], colorName)
    /\ UNCHANGED <<pc, lineColor, points, dataPoints, error, mapper, predictor>>

RemoveOutliersCall ==
    /\ call.fn = "ChartAnalyzer"
    /\ \E pts \in OutlierInputs :
          /\ call' = [fn |-> "removeOutliers", arg |-> pts]
          /\ result' = removeOutliers(pts)
    /\ UNCHANGED <<analyzerVars, mapper, predictor>>

SmoothDataCall ==
    /\ call.fn = "ChartAnalyzer"
    /\ \E pts \in SmoothInputs, window \in SmoothingWindows :
          /\ call' = [fn |-> "smoothData", arg |-> pts, window |-> window]
          /\ result' = smoothDataWith(pts, window)
    /\ UNCHANGED <<analyzerVars, mapper, predictor>>

\* detectChartBounds on an analyzer that loaded an image of any size
DetectChartBoundsCall ==
    /\ call.fn = "ChartAnalyzer"
    /\ \E w \in 1..MaxSide, h \in 1..MaxSide :
          /\ image' = PlainImage(w, h)
          /\ chartBounds' = detectChartBounds(PlainImage(w, h))
          /\ call' = [fn |-> "detectChartBounds", arg |-> <<>>]
          /\ result' = result
    /\ UNCHANGED <<pc, lineColor, points, dataPoints, error, mapper, predictor>>

DetectLineColorCall ==
    /\ call.fn = "ChartAnalyzer"
    /\ \E img \in DetectImages, b \in DetectBounds :
          /\ image' = img
          /\ chartBounds' = b
          /\ call' = [fn |-> "detectLineColor", arg |-> <<>>]
          /\ result' = detectLineColor(img, b)
    /\ UNCHANGED <<pc, lineColor, points, dataPoints, error, mapper, predictor>>

\* matchesColorProfile on a pixel {r, g, b, a} and a profile of the registry
MatchesColorProfileCall ==
    /\ call.fn = "ChartAnalyzer"
    /\ \E r \in ChannelValues, g \in ChannelValues, b \in ChannelValues, a \in AlphaValues :
       \E colorName \in DOMAIN colorProfiles :
          /\ call' = [fn |-> "matchesColorProfile", arg |-> <<r, g, b, a>>, profile |-> colorName]
          /\ result' = matchesColorProfile(<<r, g, b, a>>, colorProfiles[colorName])
    /\ UNCHANGED <<analyzerVars, mapper, predictor>>

NextUtil ==
    \/ ExtractDataPointsCall
    \/ RemoveOutliersCall
    \/ SmoothDataCall
    \/ DetectChartBoundsCall
    \/ DetectLineColorCall
    \/ MatchesColorProfileCall

SpecUtil == InitUtil /\ [][NextUtil]_vars

(***************************************************************************)
(* Properties of the ChartAnalyzer methods, checked under SpecUtil         *)
(***************************************************************************)
\* C5: removeOutliers returns an input of fewer than 10 points unchanged;
\* otherwise it returns, in the original order, exactly the points whose
\* z-score against the mean and population standard deviation of the whole
\* input does not exceed 2.5 (a point is dropped iff its z-score is strictly
\* greater than 2.5).
C5_DropsExactlyAboveThreshold ==
    call.fn = "removeOutliers"
    => LET pts  == call.arg
           mean == Mean(YValues(pts))
           var  == variance(YValues(pts))
           Exceeds(p) == Lt(Mul(outlierThreshold, outlierThreshold),
                            zScoreSquared(p.y, mean, var))
           Kept(p) == ~Exceeds(p)
       IN  result = IF Len(pts) < 10 THEN pts ELSE SelectSeq(pts, Kept)

\* the rows of column px inside the bounds whose pixel matches the profile
MatchingRows(px) ==
    { py \in chartBounds.y..(chartBounds.y + chartBounds.height - 1) :
        matchesColorProfile(getPixelColor(image, px, py), colorProfiles[call.arg]) }

\* the median of a non-empty set of integers by rank: the element with as
\* many elements below as above, or the mean of the two middle elements
ClaimedMedian(S) ==
    LET k == Cardinality(S)
        Ranked(r) == CHOOSE e \in S : Cardinality({ u \in S : u < e }) = r
    IN  IF k % 2 = 1
        THEN Num(Ranked((k - 1) \div 2))
        ELSE Norm(Ranked((k \div 2) - 1) + Ranked(k \div 2), 2)

\* C10: for each scanned column with a matching pixel the emitted y is the
\* median of the matching rows (middle element, or mean of the two middle
\* elements); a column with no matching pixel emits nothing; the column with
\* matching rows {10, 12, 14, 100} yields 13.
C10_ColumnMedian ==
    call.fn = "extractDataPoints"
    => \A px \in ScannedColumns :
          LET at == { i \in 1..Len(result) : result[i].x = px }
          IN  IF MatchingRows(px) = {}
              THEN at = {}
              ELSE /\ Cardinality(at) = 1
                   /\ \A i \in at : result[i].y = ClaimedMedian(MatchingRows(px))
                   /\ MatchingRows(px) = {10, 12, 14, 100}
                         => \A i \in at : result[i].y = Num(13)

\* the example column was scanned and gave 13
C10_Witness ==
    /\ call.fn = "extractDataPoints"
    /\ \E i \in 1..Len(result) :
          /\ MatchingRows(result[i].x) = {10, 12, 14, 100}
          /\ result[i].y = Num(13)

\* the sum of the integer heights of points lo..hi of pts
RECURSIVE HeightSum(_, _, _)
HeightSum(pts, lo, hi) ==
    IF lo > hi THEN 0 ELSE pts[lo].y[1] + HeightSum(pts, lo + 1, hi)

\* the truncated centred window of 0-based index i: the 0-based indices
\* from max(0, i - floor(w/2)) up to, not including, min(n, i + floor(w/2) + 1)
WindowIndices(n, w, i) ==
    { j \in 0..(n - 1) : j >= i - (w \div 2) /\ j < i + (w \div 2) + 1 }

\* C11: smooth with window w returns an input of n < w points unchanged;
\* otherwise it returns n points, point i keeping its x and taking as y the
\* arithmetic mean of the input heights over the window
\* [max(0, i - floor(w/2)), min(n, i + floor(w/2) + 1)), truncated at the ends;
\* for heights [0,1,2,3,4] and window 3 the value at index 0 is the mean of
\* {0, 1}.
C11_SmoothTruncatedWindow ==
    call.fn = "smoothData"
    => LET pts == call.arg
           n   == Len(pts)
           w   == call.window
       IN  /\ n < w => result = pts
           /\ n >= w =>
                 /\ Len(result) = n
                 /\ \A i \in 0..(n - 1) :
                       LET idx == WindowIndices(n, w, i)
                           lo  == CHOOSE j \in idx : \A k \in idx : j <= k
                           hi  == CHOOSE j \in idx : \A k \in idx : j >= k
                       IN  /\ result[i + 1].x = pts[i + 1].x
                           /\ result[i + 1].y
                                 = Norm(HeightSum(pts, lo + 1, hi + 1), Cardinality(idx))
           /\ (pts = ExampleHeights /\ w = 3) => result[1].y = <<1, 2>>

\* the worked example was smoothed with window 3: index 0 gave 1/2, the
\* mean of {0, 1}, and an interior index the mean of three heights
C11_Witness ==
    /\ call.fn = "smoothData"
    /\ call.arg = ExampleHeights
    /\ call.window = 3
    /\ result[1] = [x |-> 11, y |-> <<1, 2>>]
    /\ result[3] = [x |-> 13, y |-> Num(2)]

\* the pixels of the bounds detectLineColor samples: every fifth column and
\* every fifth row, from the top-left corner of the bounds
SampledPixels ==
    { q \in (chartBounds.x..(chartBounds.x + chartBounds.width - 1))
              \X (chartBounds.y..(chartBounds.y + chartBounds.height - 1)) :
        (q[1] - chartBounds.x) % 5 = 0 /\ (q[2] - chartBounds.y) % 5 = 0 }

MatchCount(colorName) ==
    Cardinality({ q \in SampledPixels :
                    LET pixel == getPixelColor(image, q[1], q[2])
                        range == colorProfiles[colorName]
                    IN  /\ pixel[1] \in range.r[1]..range.r[2]
                        /\ pixel[2] \in range.g[1]..range.g[2]
                        /\ pixel[3] \in range.b[1]..range.b[2] })

RegistryOrder == <<"blue", "red", "green", "black">>

\* C12: detectLineColor returns the profile with the highest match count over
\* the sampled pixels of the bounds; of several profiles sharing the highest
\* count the one declared first in the registry (blue, red, green, black) is
\* returned; when every count is zero it returns blue, without an error.
C12_HighestCountFirstDeclared ==
    call.fn = "detectLineColor"
    => IF \A i \in 1..4 : MatchCount(RegistryOrder[i]) = 0
       THEN result = "blue"
       ELSE \E i \in 1..4 :
               /\ result = RegistryOrder[i]
               /\ \A j \in 1..4 : MatchCount(RegistryOrder[j]) <= MatchCount(result)
               /\ \A j \in 1..(i - 1) : MatchCount(RegistryOrder[j]) < MatchCount(result)

\* green and black share the highest count, two sampled pixels each, and
\* green, declared before black, was returned
C12_Witness ==
    /\ call.fn = "detectLineColor"
    /\ result = "green"
    /\ MatchCount("green") = 2
    /\ MatchCount("black") = 2

\* C13: for every image of width W >= 1 and height H >= 1 detectChartBounds
\* yields x = floor(0.1 W), y = floor(0.1 H), width = floor(0.8 W),
\* height = floor(0.8 H), a rectangle contained in the image with
\* width > 0 and height > 0.
C13_BoundsInvariant ==
    call.fn = "detectChartBounds"
    => LET W == image.width
           H == image.height
           b == chartBounds
       IN  /\ 10 * b.x <= W /\ W < 10 * (b.x + 1)
           /\ 10 * b.y <= H /\ H < 10 * (b.y + 1)
           /\ 10 * b.width <= 8 * W /\ 8 * W < 10 * (b.width + 1)
           /\ 10 * b.height <= 8 * H /\ 8 * H < 10 * (b.height + 1)
           /\ b.x >= 0 /\ b.y >= 0
           /\ b.x + b.width <= W
           /\ b.y + b.height <= H
           /\ b.width > 0
           /\ b.height > 0

\* C18: matchesColorProfile is a closed-interval range check on the three
\* channels: true iff lo <= channel <= hi for r, g and b; a channel equal to
\* lo or hi matches; the result depends on nothing but r, g, b and the profile.
C18_ClosedRangeCheck ==
    call.fn = "matchesColorProfile"
    => LET range == colorProfiles[call.profile]
       IN  /\ result = (/\ call.arg[1] \in range.r[1]..range.r[2]
                        /\ call.arg[2] \in range.g[1]..range.g[2]
                        /\ call.arg[3] \in range.b[1]..range.b[2])
           /\ AnalyzerIdle

\* a pixel with every channel at an end of the blue ranges matched
C18_Witness ==
    /\ call.fn = "matchesColorProfile"
    /\ call.profile = "blue"
    /\ call.arg[1] = 180 /\ call.arg[2] = 200 /\ call.arg[3] = 80
    /\ result = TRUE

(***************************************************************************)
(* PricePrediction.  The fits come from the regression package, which is   *)
(* not part of the repository: regression.linear and regression.polynomial *)
(* take the normalized data and return numbers, modelled as any value of   *)
(* a small set that includes NaN (the fit of a single point is singular).  *)
(***************************************************************************)
msPerDay == 86400000

recentWindowSize == 30

normalizeData(data) ==
    [i \in 1..Len(data) |->
        <<Div(Sub(data[i].timestamp, data[1].timestamp), Num(msPerDay)), data[i].price>>]

\* new PricePrediction(mappedData); this.data[0].timestamp throws on no data
NewPricePrediction(mappedData) ==
    IF Len(mappedData) = 0
    THEN TypeError
    ELSE [data |-> mappedData, normalizedData |-> normalizeData(mappedData)]

\* slope * targetDays + intercept for an equation [slope, intercept]
linearRegression(equation, targetDays) == Add(Mul(equation[1], targetDays), equation[2])

\* a window that keeps the whole series
recentWindowAll(normalizedData) == normalizedData

\* this.normalizedData.slice(-30)
recentWindow(normalizedData) ==
    SubSeq(normalizedData, Max(1, Len(normalizedData) - recentWindowSize + 1),
           Len(normalizedData))

movingAveragePredict(p, recentEquation, targetDays) ==
    IF Len(recentWindow(p.normalizedData)) < 2
    THEN p.normalizedData[Len(p.normalizedData)][2]
    ELSE Add(Mul(recentEquation[1], targetDays), recentEquation[2])

polynomialDegree == 2

\* the calls predict makes into the regression package, in order, each with
\* the data it passes and the fit that came back
regressionCalls(p, equation, polynomial, recentEquation) ==
    <<[fn |-> "linear", data |-> p.normalizedData, returned |-> equation],
      [fn |-> "polynomial", data |-> p.normalizedData, order |-> polynomialDegree,
       returned |-> polynomial]>>
    \o (IF Len(recentWindow(p.normalizedData)) < 2
        THEN <<>>
        ELSE <<[fn |-> "linear", data |-> recentWindow(p.normalizedData),
                returned |-> recentEquation]>>)

\* weights whose sum is not 1
weightsUnnormalized ==
    [linear |-> <<3, 10>>, polynomial |-> <<4, 10>>, movingAverage |-> <<4, 10>>]

weights == [linear |-> <<3, 10>>, polynomial |-> <<4, 10>>, movingAverage |-> <<3, 10>>]

\* Object.entries(predictions): insertion order
modelNames == <<"linear", "polynomial", "movingAverage">>

\* the largest k in lo..hi with k * k <= q, for lo * lo <= q
RECURSIVE IsqrtIn(_, _, _)
IsqrtIn(q, lo, hi) ==
    IF lo >= hi THEN lo
    ELSE LET mid == (lo + hi + 1) \div 2
         IN  IF mid * mid <= q THEN IsqrtIn(q, mid, hi) ELSE IsqrtIn(q, lo, mid - 1)

\* floor(Math.sqrt(q)) for an integer q >= 0
Isqrt(q) == IsqrtIn(q, 0, Min(q, 46340))

\* floor(k * r) for an integer k > 0 and a finite r >= 0
FloorTimes(k, r) == k * (r[1] \div r[2]) + (k * (r[1] % r[2])) \div r[2]

\* Math.sqrt(v).toFixed(2), as the number the string denotes: the multiple
\* n/100 nearest to sqrt(v), the larger n of two equally near
stdDevToFixed(var) ==
    IF IsNaN(var) THEN NaN
    ELSE IF ~IsFinite(var) THEN InfOf(1)
    ELSE Norm((Isqrt(FloorTimes(40000, var)) + 1) \div 2, 100)

\* the least k with k * k >= 400 * v
RootCeil400(var) ==
    LET f == Isqrt(FloorTimes(400, var))
    IN  IF Num(f * f) = Mul(Num(400), var) THEN f ELSE f + 1

\* (100 - Math.sqrt(v)).toFixed(1) without the clamp at zero
confidenceUnclamped(var) ==
    IF IsNaN(var) THEN NaN
    ELSE IF ~IsFinite(var) THEN InfOf(-1)
    ELSE IF Lt(Num(10000), var)
    THEN Norm(0 - ((Isqrt(FloorTimes(400, var)) - 1999) \div 2), 10)
    ELSE Norm((2001 - RootCeil400(var)) \div 2, 10)

\* Math.max(0, 100 - Math.sqrt(v)).toFixed(1), as the number the string
\* denotes: the multiple n/10 nearest to the clamped value, the larger n of
\* two equally near; Math.max(0, NaN) is NaN
confidence(var) ==
    IF IsNaN(var) THEN NaN
    ELSE IF ~IsFinite(var) \/ Lt(Num(10000), var) THEN Num(0)
    ELSE Norm((2001 - RootCeil400(var)) \div 2, 10)

\* predict with the fits the package returned: equation is that of
\* regression.linear on all the data, polynomial the value of
\* regression.polynomial(...).predict(targetDays)[1], recentEquation the
\* equation of regression.linear on the recent window
predict(p, targetTimestamp, equation, polynomial, recentEquation) ==
    LET targetDays  == Div(Sub(targetTimestamp, p.data[1].timestamp), Num(msPerDay))
        predictions == [linear        |-> linearRegression(equation, targetDays),
                        polynomial    |-> polynomial,
                        movingAverage |-> movingAveragePredict(p, recentEquation, targetDays)]
        ensemble    == SumSeq([i \in 1..3 |->
                                 Mul(predictions[modelNames[i]], weights[modelNames[i]])])
        var         == Div(SumSeq([i \in 1..3 |->
                                 Mul(Sub(predictions[modelNames[i]], ensemble),
                                     Sub(predictions[modelNames[i]], ensemble))]),
                           Num(3))
    IN  [ensemble |-> ensemble, predictions |-> predictions,
         confidence |-> confidence(var), stdDev |-> stdDevToFixed(var)]

(***************************************************************************)
(* The forecast stage on any series: construction, then predict.           *)
(***************************************************************************)
MaxSeries == 3

SeriesTimestamps == {0, msPerDay, 2 * msPerDay}

SeriesPrices == {10, 20}

\* domain series: timestamps strictly increasing
DomainSeries ==
    UNION { { [i \in 1..Cardinality(S) |->
                 [timestamp |-> Num(SortedSeq(S)[i]), price |-> Num(ps[i])]] :
                ps \in [1..Cardinality(S) -> SeriesPrices] } :
            S \in { T \in SUBSET SeriesTimestamps : Cardinality(T) <= MaxSeries } }

\* what the regression package may return
FitSlopes == {Num(0), <<1, 2>>}

FitValues == {Num(10), Num(200), Num(300), NaN}

MaxLong == 32

\* series around the size of the recent window: a point every six hours
LongSeries ==
    { [i \in 1..n |-> [timestamp |-> Num((i - 1) * (msPerDay \div 4)),
                       price |-> Num(10 + (i % 3))]] :
        n \in (MaxLong - 3)..MaxLong }

PredictTargets == {2 * msPerDay, 10 * msPerDay}

InitPredict ==
    /\ AnalyzerIdle
    /\ mapper = None
    /\ predictor = None
    /\ \E series \in DomainSeries \cup LongSeries :
          call = [fn |-> "new PricePrediction", arg |-> series, outcome |-> "pending"]
    /\ result = None

Construct ==
    /\ call.fn = "new PricePrediction"
    /\ call.outcome = "pending"
    /\ IF Len(call.arg) = 0
       THEN /\ call' = [call EXCEPT !.outcome = "threw"]
            /\ result' = NewPricePrediction(call.arg)
            /\ predictor' = predictor
       ELSE /\ call' = [call EXCEPT !.outcome = "returned"]
            /\ predictor' = NewPricePrediction(call.arg)
            /\ result' = result
    /\ UNCHANGED <<analyzerVars, mapper>>

Predict ==
    /\ call.fn = "new PricePrediction"
    /\ call.outcome = "returned"
    /\ \E t \in PredictTargets, slope \in FitSlopes, intercept \in FitValues,
          polynomial \in FitValues, recentSlope \in FitSlopes, recentIntercept \in FitValues :
          /\ call' = [fn |-> "predict", arg |-> t, outcome |-> "returned",
                       fits |-> regressionCalls(predictor, <<slope, intercept>>, polynomial,
                                                <<recentSlope, recentIntercept>>)]
          /\ result' = predict(predictor, Num(t), <<slope, intercept>>, polynomial,
                               <<recentSlope, recentIntercept>>)
    /\ UNCHANGED <<analyzerVars, mapper, predictor>>

NextPredict == Construct \/ Predict

SpecPredict == InitPredict /\ [][NextPredict]_vars

(***************************************************************************)
(* Properties of the forecast stage, checked under SpecPredict             *)
(***************************************************************************)
\* C8: the forecast stage fails with an error whenever its series has fewer
\* than 2 points; it never returns a PredictionResult for such a series.
C8_ShortSeriesRejected ==
    (call.fn = "predict" /\ Len(predictor.data) < 2) => call.outcome = "threw"

\* the population variance (divisor 3) of the three predictions of a result
\* around its ensemble value
Disagreement(r) ==
    LET d(name) == Sub(r.predictions[name], r.ensemble)
    IN  Div(Add(Add(Mul(d("linear"), d("linear")), Mul(d("polynomial"), d("polynomial"))),
                Mul(d("movingAverage"), d("movingAverage"))),
            Num(3))

FinitePredictions(r) ==
    /\ IsFinite(r.predictions.linear)
    /\ IsFinite(r.predictions.polynomial)
    /\ IsFinite(r.predictions.movingAverage)

\* the integer n of a number n/10
Tenths(c) == c[1] * (10 \div c[2])

\* C15: for three finite predictions the confidence of predict is
\* max(0, 100 - sqrt(v)), v the population variance (divisor 3) of the
\* predictions around the ensemble; it is >= 0 and <= 100, and it is 0
\* whenever v >= 10000.  The returned confidence is that value to one
\* decimal: below v = 10000 a confidence of n/10 has
\* 1999 - 2n < 20 sqrt(v) <= 2001 - 2n, stated on the squares.
C15_ConfidenceClamped ==
    (call.fn = "predict" /\ FinitePredictions(result))
    => LET v == Disagreement(result)
           c == result.confidence
           n == Tenths(c)
       IN  /\ IsFinite(c)
           /\ 10 % c[2] = 0
           /\ Le(Num(0), c)
           /\ Le(c, Num(100))
           /\ Le(Num(10000), v) => c = Num(0)
           /\ Lt(v, Num(10000))
                 => /\ Le(Mul(Num(400), v), Num((2001 - 2 * n) * (2001 - 2 * n)))
                    /\ \/ 1999 - 2 * n < 0
                       \/ Lt(Num((1999 - 2 * n) * (1999 - 2 * n)), Mul(Num(400), v))

\* three finite predictions that disagree by more than the clamp: v > 10000
\* and the confidence is 0
C15_Witness ==
    /\ call.fn = "predict"
    /\ FinitePredictions(result)
    /\ Lt(Num(10000), Disagreement(result))
    /\ result.confidence = Num(0)

\* C16: the ensemble is 0.3 * linear + 0.4 * polynomial + 0.3 * movingAverage;
\* the three weights sum to exactly 1, so three equal predictions give that
\* value as the ensemble.
C16_EnsembleWeights ==
    /\ Add(Add(weights.linear, weights.polynomial), weights.movingAverage) = Num(1)
    /\ call.fn = "predict"
          => LET l == result.predictions.linear
                 q == result.predictions.polynomial
                 m == result.predictions.movingAverage
             IN  /\ result.ensemble
                       = Add(Add(Mul(<<3, 10>>, l), Mul(<<4, 10>>, q)), Mul(<<3, 10>>, m))
                 /\ (FinitePredictions(result) /\ l = q /\ q = m) => result.ensemble = l
                 /\ FinitePredictions(result)
                       => Mul(Num(10), result.ensemble)
                            = Add(Add(Mul(Num(3), l), Mul(Num(4), q)), Mul(Num(3), m))

\* three finite predictions, not all equal, were averaged
C16_Witness ==
    /\ call.fn = "predict"
    /\ FinitePredictions(result)
    /\ result.predictions.linear # result.predictions.polynomial
    /\ result.predictions.polynomial # result.predictions.movingAverage
    /\ result.ensemble # result.predictions.polynomial

\* the last min(n, 30) elements of a sequence of n elements
LastThirty(seq) ==
    LET n == Len(seq)
        k == IF n < 30 THEN n ELSE 30
    IN  [i \in 1..k |-> seq[n - k + i]]

\* C17: the movingAverage model fits its line on the most recent 30 points of
\* the normalized (days, price) series, on all of them when there are fewer
\* than 30, and evaluates it at the target day offset; with fewer than 2
\* points no line is fitted and the price of the last point is returned,
\* whatever the target.
C17_RecentWindowTrend ==
    call.fn = "predict"
    => LET data   == predictor.data
           n      == Len(data)
           series == [i \in 1..n |->
                        <<Div(Sub(data[i].timestamp, data[1].timestamp), Num(86400000)),
                          data[i].price>>]
           days   == Div(Sub(Num(call.arg), data[1].timestamp), Num(86400000))
       IN  IF n < 2
           THEN /\ Len(call.fits) = 2
                /\ result.predictions.movingAverage = data[n].price
           ELSE /\ Len(call.fits) = 3
                /\ call.fits[3].fn = "linear"
                /\ call.fits[3].data = LastThirty(series)
                /\ result.predictions.movingAverage
                      = Add(Mul(call.fits[3].returned[1], days), call.fits[3].returned[2])

\* a series longer than the window: the line was fitted on 30 points, the
\* first of them not the first of the series
C17_Witness ==
    /\ call.fn = "predict"
    /\ Len(predictor.data) > 30
    /\ Len(call.fits) = 3
    /\ Len(call.fits[3].data) = 30
    /\ call.fits[3].data[1] = predictor.normalizedData[Len(predictor.data) - 29]
    /\ call.fits[3].data[1] # predictor.normalizedData[1]

(***************************************************************************)
(* The arithmetic expression evaluator of src/Problem_1/solution.js.  An   *)
(* expression string is the sequence of its characters.  A token is a      *)
(* record: type "number" with a Number value, or type "string" with the    *)
(* character as value (typeof token).  A function that can throw yields    *)
(* [threw |-> FALSE, value |-> v] or [threw |-> TRUE, value |-> message],  *)
(* the message without its interpolated part.                              *)
(***************************************************************************)
precedence == [c \in {"+", "-", "*", "/"} |-> IF c \in {"+", "-"} THEN 1 ELSE 2]

isOperator(c) == c \in {"+", "-", "*", "/"}

DigitChars == <<"0", "1", "2", "3", "4", "5", "6", "7", "8", "9">>

IsDigit(c) == \E k \in 1..10 : DigitChars[k] = c

DigitValue(c) == (CHOOSE k \in 1..10 : DigitChars[k] = c) - 1

\* /\s/ on the characters the expressions are written with
IsSpace(c) == c = " "

Returned(v) == [threw |-> FALSE, value |-> v]

Thrown(message) == [threw |-> TRUE, value |-> message]

NumberToken(num) == [type |-> "number", value |-> num]

CharToken(c) == [type |-> "string", value |-> c]

\* the length of the longest run of digits of buf from position i on
RECURSIVE DigitRun(_, _)
DigitRun(buf, i) ==
    IF i <= Len(buf) /\ IsDigit(buf[i]) THEN 1 + DigitRun(buf, i + 1) ELSE 0

\* the integer written by the digits buf[i], ..., buf[i + k - 1]
RECURSIVE DigitsValue(_, _, _)
DigitsValue(buf, i, k) ==
    IF k = 0 THEN 0 ELSE 10 * DigitsValue(buf, i, k - 1) + DigitValue(buf[i + k - 1])

RECURSIVE Pow10(_)
Pow10(k) == IF k = 0 THEN 1 ELSE 10 * Pow10(k - 1)

\* parseFloat on a buffer of '-', digits and '.': an optional sign, then the
\* longest prefix digits [. digits] or . digits; NaN when there is no digit
parseFloat(buf) ==
    LET signed   == Len(buf) > 0 /\ buf[1] = "-"
        from     == IF signed THEN 2 ELSE 1
        intLen   == DigitRun(buf, from)
        dot      == from + intLen
        hasDot   == dot <= Len(buf) /\ buf[dot] = "."
        fracLen  == IF hasDot THEN DigitRun(buf, dot + 1) ELSE 0
        magnitude == Norm(DigitsValue(buf, from, intLen) * Pow10(fracLen)
                            + DigitsValue(buf, dot + 1, fracLen),
                          Pow10(fracLen))
    IN  IF intLen = 0 /\ fracLen = 0 THEN NaN
        ELSE IF signed THEN Neg(magnitude) ELSE magnitude

\* expectUnaryMinus after a character pushed as a token, were a '-' after
\* '(' a subtraction
expectAfterOperatorOnly(char, expectUnaryMinus) ==
    IF char = "(" THEN FALSE
    ELSE IF isOperator(char) THEN TRUE
    ELSE IF char = ")" THEN FALSE
    ELSE expectUnaryMinus

\* expectUnaryMinus after a character pushed as a token (lines 66-72)
expectAfter(char, expectUnaryMinus) ==
    IF char = "(" THEN TRUE
    ELSE IF isOperator(char) THEN TRUE
    ELSE IF char = ")" THEN FALSE
    ELSE expectUnaryMinus

\* the loop of tokenize from character i on, and the flush after the loop
RECURSIVE tokenizeFrom(_, _, _, _, _)
tokenizeFrom(expr, i, tokens, numberBuffer, expectUnaryMinus) ==
    IF i > Len(expr)
    THEN IF Len(numberBuffer) > 0
         THEN IF IsNaN(parseFloat(numberBuffer))
              THEN Thrown("Invalid number")
              ELSE Returned(Append(tokens, NumberToken(parseFloat(numberBuffer))))
         ELSE Returned(tokens)
    ELSE LET char == expr[i]
         IN  IF IsSpace(char)
             THEN tokenizeFrom(expr, i + 1, tokens, numberBuffer, expectUnaryMinus)
             ELSE IF IsDigit(char) \/ char = "."
             THEN tokenizeFrom(expr, i + 1, tokens, Append(numberBuffer, char), FALSE)
             ELSE IF char = "-" /\ expectUnaryMinus
             THEN tokenizeFrom(expr, i + 1, tokens, Append(numberBuffer, char),
                               expectUnaryMinus)
             ELSE IF Len(numberBuffer) > 0 /\ IsNaN(parseFloat(numberBuffer))
             THEN Thrown("Invalid number")
             ELSE LET flushed == IF Len(numberBuffer) > 0
                                 THEN Append(tokens, NumberToken(parseFloat(numberBuffer)))
                                 ELSE tokens
                 IN  tokenizeFrom(expr, i + 1, Append(flushed, CharToken(char)), <<>>,
                                  expectAfter(char, expectUnaryMinus))

tokenize(expr) == tokenizeFrom(expr, 1, <<>>, <<>>, TRUE)

\* the loop of validateTokens from token i on (1-based), and the two tests
\* after the loop; lastTokenType null is "null"
RECURSIVE validateFrom(_, _, _, _)
validateFrom(tokens, i, parenCount, lastTokenType) ==
    IF i > Len(tokens)
    THEN IF parenCount # 0
         THEN Thrown("Mismatched parentheses: unclosed opening parentheses")
         ELSE IF lastTokenType = "operator"
         THEN Thrown("Invalid expression: ends with an operator")
         ELSE Returned("undefined")
    ELSE LET token == tokens[i]
         IN  IF token.type = "number"
             THEN IF lastTokenType \in {"number", "close"}
                  THEN Thrown("Invalid expression: unexpected number")
                  ELSE validateFrom(tokens, i + 1, parenCount, "number")
             ELSE IF token.value = "("
             THEN IF lastTokenType \in {"number", "close"}
                  THEN Thrown("Invalid expression: unexpected '('")
                  ELSE validateFrom(tokens, i + 1, parenCount + 1, "open")
             ELSE IF token.value = ")"
             THEN IF parenCount - 1 < 0
                  THEN Thrown("Mismatched parentheses: too many closing parentheses")
                  ELSE IF lastTokenType \in {"operator", "open"}
                  THEN Thrown("Invalid expression: unexpected ')'")
                  ELSE validateFrom(tokens, i + 1, parenCount - 1, "close")
             ELSE IF isOperator(token.value)
             THEN IF lastTokenType \in {"operator", "open"}
                  THEN Thrown("Invalid expression: consecutive operators")
                  ELSE validateFrom(tokens, i + 1, parenCount, "operator")
             ELSE validateFrom(tokens, i + 1, parenCount, lastTokenType)

validateTokens(tokens) ==
    IF Len(tokens) = 0 THEN Thrown("Empty expression")
    ELSE validateFrom(tokens, 1, 0, "null")

Top(stack) == stack[Len(stack)]

Pop(stack) == SubSeq(stack, 1, Len(stack) - 1)

\* an operator on the stack yields only to a token of lower precedence
popsOperatorStrict(stackTop, token) == precedence[stackTop] > precedence[token]

\* precedence[operatorStack[operatorStack.length - 1]] >= precedence[token]
popsOperator(stackTop, token) == precedence[stackTop] >= precedence[token]

\* while (operatorStack.length && top !== '(') outputQueue.push(pop())
RECURSIVE popToOpen(_, _)
popToOpen(outputQueue, operatorStack) ==
    IF Len(operatorStack) > 0 /\ Top(operatorStack) # "("
    THEN popToOpen(Append(outputQueue, CharToken(Top(operatorStack))), Pop(operatorStack))
    ELSE [outputQueue |-> outputQueue, operatorStack |-> operatorStack]

\* while (operatorStack.length && top !== '(' && precedence[top] >= precedence[token])
RECURSIVE popHigher(_, _, _)
popHigher(outputQueue, operatorStack, token) ==
    IF /\ Len(operatorStack) > 0
       /\ Top(operatorStack) # "("
       /\ popsOperator(Top(operatorStack), token)
    THEN popHigher(Append(outputQueue, CharToken(Top(operatorStack))), Pop(operatorStack), token)
    ELSE [outputQueue |-> outputQueue, operatorStack |-> operatorStack]

\* while (operatorStack.length) outputQueue.push(operatorStack.pop())
RECURSIVE popAll(_, _)
popAll(outputQueue, operatorStack) ==
    IF Len(operatorStack) > 0
    THEN popAll(Append(outputQueue, CharToken(Top(operatorStack))), Pop(operatorStack))
    ELSE outputQueue

\* the forEach of toPostfix from token i on, then the final loop
RECURSIVE toPostfixFrom(_, _, _, _)
toPostfixFrom(tokens, i, outputQueue, operatorStack) ==
    IF i > Len(tokens) THEN popAll(outputQueue, operatorStack)
    ELSE LET token == tokens[i]
         IN  IF token.type = "number"
             THEN toPostfixFrom(tokens, i + 1, Append(outputQueue, token), operatorStack)
             ELSE IF token.value = "("
             THEN toPostfixFrom(tokens, i + 1, outputQueue, Append(operatorStack, "("))
             ELSE IF token.value = ")"
             THEN LET s == popToOpen(outputQueue, operatorStack)
                  IN  toPostfixFrom(tokens, i + 1, s.outputQueue,
                                    IF Len(s.operatorStack) > 0 THEN Pop(s.operatorStack)
                                    ELSE s.operatorStack)
             ELSE IF isOperator(token.value)
             THEN LET s == popHigher(outputQueue, operatorStack, token.value)
                  IN  toPostfixFrom(tokens, i + 1, s.outputQueue,
                                    Append(s.operatorStack, token.value))
             ELSE toPostfixFrom(tokens, i + 1, outputQueue, operatorStack)

toPostfix(tokens) == toPostfixFrom(tokens, 1, <<>>, <<>>)

\* Math.trunc: Infinity, -Infinity and NaN are returned as they are
Trunc(a) == IF IsFinite(a) THEN Num(SignOf(a) * (AbsInt(a[1]) \div a[2])) ELSE a

\* a division with no test of its divisor
divisorIsZeroUntested(b) == FALSE

\* b === 0
divisorIsZero(b) == StrictEq(b, Num(0))

\* the forEach of evaluatePostfix from token i on, then the test on the stack
RECURSIVE evaluateFrom(_, _, _)
evaluateFrom(postfixTokens, i, stack) ==
    IF i > Len(postfixTokens)
    THEN IF Len(stack) # 1
         THEN Thrown("Invalid expression: too many operands")
         ELSE Returned(stack[1])
    ELSE LET token == postfixTokens[i]
         IN  IF token.type = "number"
             THEN evaluateFrom(postfixTokens, i + 1, Append(stack, token.value))
             ELSE IF Len(stack) < 2
             THEN Thrown("Invalid expression: insufficient operands")
             ELSE LET b    == stack[Len(stack)]
                      a    == stack[Len(stack) - 1]
                      rest == SubSeq(stack, 1, Len(stack) - 2)
                  IN  IF token.value = "+"
                      THEN evaluateFrom(postfixTokens, i + 1, Append(rest, Add(a, b)))
                      ELSE IF token.value = "-"
                      THEN evaluateFrom(postfixTokens, i + 1, Append(rest, Sub(a, b)))
                      ELSE IF token.value = "*"
                      THEN evaluateFrom(postfixTokens, i + 1, Append(rest, Mul(a, b)))
                      ELSE IF token.value = "/"
                      THEN IF divisorIsZero(b)
                           THEN Thrown("Division by zero")
                           ELSE evaluateFrom(postfixTokens, i + 1,
                                             Append(rest, Trunc(Div(a, b))))
                      ELSE evaluateFrom(postfixTokens, i + 1, rest)

evaluatePostfix(postfixTokens) == evaluateFrom(postfixTokens, 1, <<>>)

evaluateExpression(expression) ==
    LET tokens == tokenize(expression)
    IN  IF tokens.threw THEN tokens
        ELSE IF validateTokens(tokens.value).threw THEN validateTokens(tokens.value)
        ELSE evaluatePostfix(toPostfix(tokens.value))

(***************************************************************************)
(* evaluateExpression on well-formed expressions.  An expression is given  *)
(* by its reading, the sequence of the numbers and symbols it is made of,  *)
(* and written out either without spaces or with one space between any     *)
(* two of them; a negative number is written with its sign.                *)
(***************************************************************************)
MaxTokens == 7

RefNum(n) == [kind |-> "num", n |-> n, c |-> ""]

RefSym(c) == [kind |-> "sym", n |-> 0, c |-> c]

ExprNumbers == {2, 3, 0 - 10}

\* the well-formed readings of exactly k numbers and symbols:
\* E ::= number | ( E ) | E op E
RECURSIVE WellFormed(_)
WellFormed(k) ==
    IF k < 1 THEN {}
    ELSE IF k = 1 THEN { <<RefNum(n)>> : n \in ExprNumbers }
    ELSE { <<RefSym("(")>> \o e \o <<RefSym(")")>> : e \in WellFormed(k - 2) }
         \cup UNION { { a \o <<RefSym(op)>> \o b :
                          a \in WellFormed(i), b \in WellFormed(k - 1 - i),
                          op \in {"+", "-", "*", "/"} } :
                      i \in 1..(k - 2) }

Readings == UNION { WellFormed(k) : k \in 1..MaxTokens }

\* the decimal digits of an integer n >= 0
RECURSIVE Digits(_)
Digits(n) ==
    IF n < 10 THEN <<DigitChars[n + 1]>>
    ELSE Append(Digits(n \div 10), DigitChars[(n % 10) + 1])

Written(t) ==
    IF t.kind = "sym" THEN <<t.c>>
    ELSE IF t.n < 0 THEN <<"-">> \o Digits(0 - t.n)
    ELSE Digits(t.n)

\* the expression string of a reading
RECURSIVE Render(_, _)
Render(reading, spaced) ==
    IF Len(reading) = 0 THEN <<>>
    ELSE IF Len(reading) = 1 THEN Written(reading[1])
    ELSE Written(reading[1]) \o (IF spaced THEN <<" ">> ELSE <<>>)
           \o Render(Tail(reading), spaced)

\* the expressions of the test cases, with their readings and values
WorkedExamples ==
    <<[expr |-> <<"2", "+", "3", "*", "4">>,
       reading |-> <<RefNum(2), RefSym("+"), RefNum(3), RefSym("*"), RefNum(4)>>,
       expected |-> 14],
      [expr |-> <<"(", "1", "0", " ", "+", " ", "2", ")", " ", "*", " ", "3", " ", "/", " ", "4">>,
       reading |-> <<RefSym("("), RefNum(10), RefSym("+"), RefNum(2), RefSym(")"), RefSym("*"), RefNum(3), RefSym("/"), RefNum(4)>>,
       expected |-> 9],
      [expr |-> <<"1", "0", " ", "/", " ", "3">>,
       reading |-> <<RefNum(10), RefSym("/"), RefNum(3)>>,
       expected |-> 3],
      [expr |-> <<"-", "1", "0", " ", "/", " ", "3">>,
       reading |-> <<RefNum(0 - 10), RefSym("/"), RefNum(3)>>,
       expected |-> 0 - 3],
      [expr |-> <<"(", "(", "2", "+", "3", ")", "*", "(", "4", "-", "1", ")", ")", "/", "3">>,
       reading |-> <<RefSym("("), RefSym("("), RefNum(2), RefSym("+"), RefNum(3), RefSym(")"), RefSym("*"), RefSym("("), RefNum(4), RefSym("-"), RefNum(1), RefSym(")"), RefSym(")"), RefSym("/"), RefNum(3)>>,
       expected |-> 5],
      [expr |-> <<"1", "0", "0", " ", "-", " ", "5", "0", " ", "+", " ", "2", "5">>,
       reading |-> <<RefNum(100), RefSym("-"), RefNum(50), RefSym("+"), RefNum(25)>>,
       expected |-> 75],
      [expr |-> <<"-", "5", " ", "+", " ", "3">>,
       reading |-> <<RefNum(0 - 5), RefSym("+"), RefNum(3)>>,
       expected |-> 0 - 2],
      [expr |-> <<"2", " ", "*", " ", "-", "3">>,
       reading |-> <<RefNum(2), RefSym("*"), RefNum(0 - 3)>>,
       expected |-> 0 - 6],
      [expr |-> <<"(", "-", "5", " ", "+", " ", "3", ")", " ", "*", " ", "2">>,
       reading |-> <<RefSym("("), RefNum(0 - 5), RefSym("+"), RefNum(3), RefSym(")"), RefSym("*"), RefNum(2)>>,
       expected |-> 0 - 4]>>

\* "4 / (2 - 2)" and "1 2"
QuotedExamples ==
    { [expr |-> <<"4", " ", "/", " ", "(", "2", " ", "-", " ", "2", ")">>,
       reading |-> <<RefNum(4), RefSym("/"), RefSym("("), RefNum(2), RefSym("-"), RefNum(2), RefSym(")")>>,
       form |-> "expression"],
      [expr |-> <<"1", " ", "2">>,
       reading |-> <<RefNum(1), RefNum(2)>>,
       form |-> "juxtaposed"] }

MaxOperand == 3

\* the expressions that are put side by side with no operator between them
Operands == UNION { WellFormed(k) : k \in 1..MaxOperand }

InitEval ==
    /\ AnalyzerIdle
    /\ mapper = None
    /\ predictor = None
    /\ call = [fn |-> "Problem_1", arg |-> <<>>, reading |-> <<>>]
    /\ result = None

\* form tells a well-formed expression from two of them side by side: the
\* second then starts with an unsigned number, and a space separates the two
\* unless the first ends with ')'
EvaluateExpression ==
    /\ call.fn = "Problem_1"
    /\ \/ \E reading \in Readings, spaced \in BOOLEAN :
            /\ call' = [fn |-> "evaluateExpression", arg |-> Render(reading, spaced),
                        reading |-> reading, form |-> "expression"]
            /\ result' = evaluateExpression(Render(reading, spaced))
       \/ \E k \in 1..Len(WorkedExamples) :
            /\ call' = [fn |-> "evaluateExpression", arg |-> WorkedExamples[k].expr,
                        reading |-> WorkedExamples[k].reading, form |-> "expression"]
            /\ result' = evaluateExpression(WorkedExamples[k].expr)
       \/ \E e \in QuotedExamples :
            /\ call' = [fn |-> "evaluateExpression", arg |-> e.expr,
                        reading |-> e.reading, form |-> e.form]
            /\ result' = evaluateExpression(e.expr)
       \/ \E a \in Operands, b \in Operands, spaced \in BOOLEAN :
            /\ b[1].kind = "num" /\ b[1].n >= 0
            /\ spaced \/ a[Len(a)] = RefSym(")")
            /\ call' = [fn |-> "evaluateExpression", arg |-> Render(a \o b, spaced),
                        reading |-> a \o b, form |-> "juxtaposed"]
            /\ result' = evaluateExpression(Render(a \o b, spaced))
    /\ UNCHANGED <<analyzerVars, mapper, predictor>>

NextEval == EvaluateExpression

SpecEval == InitEval /\ [][NextEval]_vars

(***************************************************************************)
(* Properties of evaluateExpression, checked under SpecEval                *)
(***************************************************************************)
\* a quotient truncated toward zero
TruncQuot(a, b) ==
    (IF (a < 0) = (b < 0) THEN 1 ELSE 0 - 1) * (AbsInt(a) \div AbsInt(b))

Defined(v, next) == [defined |-> TRUE, v |-> v, next |-> next]

Undefined == [defined |-> FALSE, v |-> 0, next |-> 0]

\* the value of a reading by the grammar
\*     expr ::= term { (+ | -) term }     term ::= factor { (* | /) factor }
\*     factor ::= number | ( expr )
\* each operator applied left to right to the values of its operands, a
\* division being truncated toward zero and undefined for a zero divisor;
\* ValueOfExpr(r, i) is the value of the expr that starts at r[i], with the
\* position after it
RECURSIVE ValueOfExpr(_, _)
RECURSIVE ExprRest(_, _)
RECURSIVE ValueOfTerm(_, _)
RECURSIVE TermRest(_, _)
RECURSIVE ValueOfFactor(_, _)
ValueOfFactor(r, i) ==
    IF r[i].kind = "num" THEN Defined(r[i].n, i + 1)
    ELSE LET inner == ValueOfExpr(r, i + 1)
         IN  IF inner.defined THEN Defined(inner.v, inner.next + 1) ELSE Undefined

TermRest(r, left) ==
    IF ~left.defined THEN Undefined
    ELSE IF left.next <= Len(r) /\ r[left.next].kind = "sym" /\ r[left.next].c \in {"*", "/"}
    THEN LET right == ValueOfFactor(r, left.next + 1)
         IN  IF ~right.defined THEN Undefined
             ELSE IF r[left.next].c = "*"
             THEN TermRest(r, Defined(left.v * right.v, right.next))
             ELSE IF right.v = 0 THEN Undefined
             ELSE TermRest(r, Defined(TruncQuot(left.v, right.v), right.next))
    ELSE left

ValueOfTerm(r, i) == TermRest(r, ValueOfFactor(r, i))

ExprRest(r, left) ==
    IF ~left.defined THEN Undefined
    ELSE IF left.next <= Len(r) /\ r[left.next].kind = "sym" /\ r[left.next].c \in {"+", "-"}
    THEN LET right == ValueOfTerm(r, left.next + 1)
         IN  IF ~right.defined THEN Undefined
             ELSE IF r[left.next].c = "+"
             THEN ExprRest(r, Defined(left.v + right.v, right.next))
             ELSE ExprRest(r, Defined(left.v - right.v, right.next))
    ELSE left

ValueOfExpr(r, i) == ExprRest(r, ValueOfTerm(r, i))

\* C20: for a well-formed expression over integers with binary + - * / and
\* parentheses evaluateExpression returns the value by standard precedence,
\* operators of equal precedence applied left to right, parentheses first,
\* every division truncated toward zero; "2+3*4" = 14,
\* "(10 + 2) * 3 / 4" = 9, "10 / 3" = 3, "-10 / 3" = -3,
\* "((2+3)*(4-1))/3" = 5, "100 - 50 + 25" = 75.
C20_StandardPrecedence ==
    (call.fn = "evaluateExpression" /\ call.form = "expression")
    => /\ ValueOfExpr(call.reading, 1).defined
            => /\ ~result.threw
               /\ result.value = Num(ValueOfExpr(call.reading, 1).v)
       /\ \A k \in 1..Len(WorkedExamples) :
             call.arg = WorkedExamples[k].expr
                => ~result.threw /\ result.value = Num(WorkedExamples[k].expected)

\* "(10 + 2) * 3 / 4" was evaluated to 9
C20_Witness ==
    /\ call.fn = "evaluateExpression"
    /\ call.arg = WorkedExamples[2].expr
    /\ ~result.threw
    /\ result.value = Num(9)

\* the tokens of a reading: a number token for each number, negative ones
\* included, and the character for each symbol
TokensOf(reading) ==
    [k \in 1..Len(reading) |->
        IF reading[k].kind = "num" THEN NumberToken(Num(reading[k].n))
        ELSE CharToken(reading[k].c)]

\* position k of a reading is where a '-' is a sign: the start, or directly
\* after a binary operator or '('
SignPosition(reading, k) ==
    k = 1 \/ (reading[k - 1].kind = "sym" /\ reading[k - 1].c \in {"+", "-", "*", "/", "("})

\* C21: a '-' at the start of the expression, directly after a binary
\* operator or directly after '(' is read by tokenize as the sign of the
\* number that follows, a '-' after a number or ')' as the subtraction
\* operator; "-5 + 3" = -2, "2 * -3" = -6, "(-5 + 3) * 2" = -4.
C21_UnaryMinus ==
    (call.fn = "evaluateExpression" /\ call.form = "expression")
    => /\ \A k \in 1..Len(call.reading) :
             call.reading[k].kind = "num" => SignPosition(call.reading, k)
       /\ \A k \in 1..Len(call.reading) :
             (call.reading[k].kind = "sym" /\ call.reading[k].c = "-")
                => ~SignPosition(call.reading, k)
       /\ tokenize(call.arg) = Returned(TokensOf(call.reading))
       /\ \A k \in 7..9 :
             call.arg = WorkedExamples[k].expr
                => ~result.threw /\ result.value = Num(WorkedExamples[k].expected)

\* "(-10-2)" and the like: a sign after '(' and a subtraction after a
\* number in one expression
C21_Witness ==
    /\ call.fn = "evaluateExpression"
    /\ call.form = "expression"
    /\ Len(call.reading) >= 5
    /\ call.reading[1] = RefSym("(")
    /\ call.reading[2] = RefNum(0 - 10)
    /\ call.reading[3] = RefSym("-")
    /\ call.reading[4].kind = "num"
    /\ call.arg[2] = "-"
    /\ tokenize(call.arg).value[2] = NumberToken(Num(0 - 10))
    /\ tokenize(call.arg).value[3] = CharToken("-")
    /\ ~result.threw

\* C26: evaluateExpression raises "Division by zero", and returns no value,
\* whenever a division whose right operand evaluates to zero is reached,
\* wherever the division is in the expression; "4 / (2 - 2)" is such a one.
C26_DivisionByZero ==
    (call.fn = "evaluateExpression" /\ call.form = "expression")
    => (~ValueOfExpr(call.reading, 1).defined <=> result = Thrown("Division by zero"))

\* the divisor is a parenthesised difference of two equal numbers
C26_Witness ==
    /\ call.fn = "evaluateExpression"
    /\ call.form = "expression"
    /\ Len(call.reading) = 7
    /\ call.reading[1].kind = "num"
    /\ call.reading[2] = RefSym("/")
    /\ call.reading[3] = RefSym("(")
    /\ call.reading[5] = RefSym("-")
    /\ call.reading[4] = call.reading[6]
    /\ result = Thrown("Division by zero")

\* C27: evaluateExpression rejects with an "unexpected number" error every
\* expression in which two numbers stand side by side with no operator
\* between them, "1 2" or a number directly after ')'.
C27_JuxtaposedNumbersRejected ==
    (call.fn = "evaluateExpression" /\ call.form = "juxtaposed")
    => result = Thrown("Invalid expression: unexpected number")

(***************************************************************************)
(* analyzeStockChart, and two invocations of it in flight together.  An    *)
(* invocation is suspended once, at Jimp.read; what follows the decode     *)
(* runs as two continuations (the rest of analyze, then the rest of        *)
(* analyzeStockChart), each without interruption.  Every variable is here  *)
(* a function of the invocation: analyzer, mapper and predictor are        *)
(* objects created by the invocation and held in its own constants.        *)
(* A date string is given by the timestamp new Date(...).getTime() reads   *)
(* from it; null is the record Null.                                       *)
(***************************************************************************)
Null == [null |-> TRUE]

\* x.toFixed(2) read back by parseFloat: the multiple n/100 nearest to x,
\* the larger magnitude of two equally near
toFixed2(x) ==
    IF ~IsFinite(x) THEN x
    ELSE Norm(SignOf(x) * ((200 * AbsInt(x[1]) + x[2]) \div (2 * x[2])), 100)

\* ChartAnalyzer.analyze as a function of what Jimp.read yields
analyze(decoded) ==
    IF decoded = Null THEN Thrown("Failed to load image")
    ELSE LET bounds == detectChartBounds(decoded)
             raw    == extractDataPoints(decoded, bounds, detectLineColor(decoded, bounds))
         IN  IF insufficient(raw)
             THEN Thrown("Insufficient data points detected")
             ELSE Returned(smoothData(removeOutliers(raw)))

\* the object analyzeStockChart returns (lines 1019-1030)
chartResult(args, queryPrice, prediction) ==
    [query |-> [date |-> args.queryTimestamp, price |-> toFixed2(queryPrice)],
     prediction |-> [date |-> args.futureTimestamp,
                     price |-> toFixed2(prediction.ensemble),
                     confidence |-> prediction.confidence,
                     models |-> prediction.predictions,
                     stdDev |-> prediction.stdDev]]

\* steps 2 to 4 of analyzeStockChart and its return value; fits is what the
\* regression package returns for the data of this invocation.  With no
\* data point lookupPrice throws, and nothing after it runs.
mapAndPredict(pts, bounds, args) ==
    IF Len(pts) = 0
    THEN Thrown(TypeError)
    ELSE Returned(chartResult(args,
             lookupPrice(NewPriceMapper(pts, bounds, args.dateRange, args.priceRange),
                         Num(args.queryTimestamp)),
             predict(NewPricePrediction(getMappedData(
                         NewPriceMapper(pts, bounds, args.dateRange, args.priceRange))),
                     Num(args.futureTimestamp), args.fits.equation,
                     args.fits.polynomial, args.fits.recentEquation)))

analyzeStockChart(args) ==
    LET analyzed == analyze(args.decoded)
    IN  IF analyzed.threw THEN analyzed
        ELSE mapAndPredict(analyzed.value, detectChartBounds(args.decoded), args)

Invocations == {1, 2}

\* a rising stroke, a stepped thick stroke with a stray pixel, a flat stroke
\* (every point is rejected as an outlier) and an image too narrow for
\* minLinePoints columns
ChartImages ==
    { LineImage(30, 20, Blue, "rise", 1, 0, "none"),
      LineImage(25, 10, Black, "step", 2, 0, "add"),
      LineImage(25, 10, Blue, "flat", 1, 0, "none"),
      LineImage(24, 10, Blue, "rise", 1, 0, "none") }

ChartRanges ==
    { [dateRange |-> [start |-> 0, end |-> 24 * msPerDay], priceRange |-> [min |-> 100, max |-> 210]],
      [dateRange |-> [start |-> msPerDay, end |-> 13 * msPerDay], priceRange |-> [min |-> 0, max |-> 40]] }

QueryTimestamps == {6 * msPerDay, 12 * msPerDay}

\* the arguments of an invocation with what its environment answers: the
\* image the path decodes to (Null when Jimp.read fails) and the fits
ChartCalls ==
    { [decoded |-> img, dateRange |-> r.dateRange, priceRange |-> r.priceRange,
       queryTimestamp |-> q, futureTimestamp |-> 20 * msPerDay,
       fits |-> [equation |-> <<<<1, 2>>, Num(100)>>, polynomial |-> Num(120),
                 recentEquation |-> <<Num(0), Num(105)>>]] :
        img \in ChartImages \cup {Null}, r \in ChartRanges, q \in QueryTimestamps }

\* a field of every invocation's objects set at once, as one shared object
\* would be
AssignShared(field, i, v) == [j \in DOMAIN field |-> v]

\* a field of the objects of invocation i
Assign(field, i, v) == [field EXCEPT ![i] = v]

\* the second invocation is given any image, with the first ranges and query
InitConcurrent ==
    /\ call \in { c \in [Invocations -> ChartCalls] :
                     /\ c[2].dateRange.start = 0
                     /\ c[2].queryTimestamp = 6 * msPerDay }
    /\ pc = [i \in Invocations |-> "load"]
    /\ image = [i \in Invocations |-> Null]
    /\ chartBounds = [i \in Invocations |-> Null]
    /\ lineColor = [i \in Invocations |-> None]
    /\ points = [i \in Invocations |-> <<>>]
    /\ dataPoints = [i \in Invocations |-> <<>>]
    /\ error = [i \in Invocations |-> None]
    /\ mapper = [i \in Invocations |-> Null]
    /\ predictor = [i \in Invocations |-> Null]
    /\ result = [i \in Invocations |-> Null]

\* Jimp.read settles: this.image is set, or load throws
LoadOf(i) ==
    /\ pc[i] = "load"
    /\ IF call[i].decoded = Null
       THEN /\ error' = Assign(error, i, "Failed to load image")
            /\ pc' = Assign(pc, i, "failed")
            /\ image' = image
       ELSE /\ image' = Assign(image, i, call[i].decoded)
            /\ pc' = Assign(pc, i, "analyze")
            /\ error' = error
    /\ UNCHANGED <<chartBounds, lineColor, points, dataPoints, mapper, predictor, call, result>>

\* the rest of analyze, from detectChartBounds to its return or throw
AnalyzeOf(i) ==
    /\ pc[i] = "analyze"
    /\ LET bounds == detectChartBounds(image[i])
           color  == detectLineColor(image[i], bounds)
           raw    == extractDataPoints(image[i], bounds, color)
       IN  /\ chartBounds' = Assign(chartBounds, i, bounds)
           /\ lineColor' = Assign(lineColor, i, color)
           /\ IF insufficient(raw)
              THEN /\ points' = Assign(points, i, raw)
                   /\ dataPoints' = dataPoints
                   /\ error' = Assign(error, i, "Insufficient data points detected")
                   /\ pc' = Assign(pc, i, "failed")
              ELSE /\ points' = Assign(points, i, smoothData(removeOutliers(raw)))
                   /\ dataPoints' = Assign(dataPoints, i, smoothData(removeOutliers(raw)))
                   /\ error' = error
                   /\ pc' = Assign(pc, i, "map")
    /\ UNCHANGED <<image, mapper, predictor, call, result>>

\* what the rest of analyzeStockChart leaves behind: m is its mapper and
\* outcome its return value or the error it throws
FinishWith(i, m, outcome) ==
    /\ mapper' = Assign(mapper, i, m)
    /\ IF outcome.threw
       THEN /\ error' = Assign(error, i, outcome.value)
            /\ pc' = Assign(pc, i, "failed")
            /\ predictor' = predictor
            /\ result' = result
       ELSE /\ predictor' = Assign(predictor, i, NewPricePrediction(getMappedData(m)))
            /\ result' = Assign(result, i, outcome.value)
            /\ pc' = Assign(pc, i, "done")
            /\ error' = error
    /\ UNCHANGED <<image, chartBounds, lineColor, points, dataPoints, call>>

\* the rest of analyzeStockChart: mapper, lookup, predictor, predict, return
FinishOf(i) ==
    /\ pc[i] = "map"
    /\ FinishWith(i, NewPriceMapper(dataPoints[i], chartBounds[i],
                                    call[i].dateRange, call[i].priceRange),
                  mapAndPredict(dataPoints[i], chartBounds[i], call[i]))

LoadSettles == \E i \in Invocations : LoadOf(i)

AnalyzeContinues == \E i \in Invocations : AnalyzeOf(i)

ChartContinues == \E i \in Invocations : FinishOf(i)

NextConcurrent == LoadSettles \/ AnalyzeContinues \/ ChartContinues

SpecConcurrent == InitConcurrent /\ [][NextConcurrent]_vars

(***************************************************************************)
(* Properties of concurrent invocations, checked under SpecConcurrent      *)
(***************************************************************************)
\* invocation i holds, at the point it has reached, what a run of it alone
\* holds there: nothing before its own steps, then the values computed from
\* its own image, ranges and dates
AsAlone(i) ==
    LET alone == analyzeStockChart(call[i])
        img   == call[i].decoded
    IN  /\ pc[i] = "load"
              => /\ image[i] = Null /\ chartBounds[i] = Null /\ lineColor[i] = None
                 /\ points[i] = <<>> /\ dataPoints[i] = <<>> /\ error[i] = None
        /\ pc[i] \in {"analyze", "map", "done"} => image[i] = img
        /\ pc[i] = "analyze"
              => /\ chartBounds[i] = Null /\ lineColor[i] = None
                 /\ points[i] = <<>> /\ dataPoints[i] = <<>> /\ error[i] = None
        /\ pc[i] \in {"map", "done"}
              => /\ chartBounds[i] = detectChartBounds(img)
                 /\ lineColor[i] = detectLineColor(img, detectChartBounds(img))
                 /\ dataPoints[i] = smoothData(removeOutliers(
                        extractDataPoints(img, chartBounds[i], lineColor[i])))
                 /\ points[i] = dataPoints[i]
                 /\ error[i] = None
        /\ pc[i] \in {"load", "analyze", "map"}
              => mapper[i] = Null /\ predictor[i] = Null /\ result[i] = Null
        /\ pc[i] = "done"
              => /\ ~alone.threw
                 /\ result[i] = alone.value
                 /\ mapper[i] = NewPriceMapper(dataPoints[i], chartBounds[i],
                                               call[i].dateRange, call[i].priceRange)
                 /\ predictor[i] = NewPricePrediction(getMappedData(mapper[i]))
        /\ pc[i] = "failed"
              => /\ alone.threw
                 /\ error[i] = alone.value
                 /\ result[i] = Null
                 /\ predictor[i] = Null

\* C19: two independent analyzeStockChart invocations that run concurrently,
\* interleaved in any order at the image-decode suspension point, share no
\* mutable state: each produces exactly the result it produces when run
\* alone, and neither changes the other's analyzer, mapper or predictor.
C19_InvocationsIndependent == \A i \in Invocations : AsAlone(i)

\* invocation 1 has returned while invocation 2, given another image and
\* other ranges, is between its decode and the rest of its analysis
C19_Witness ==
    /\ pc[1] = "done"
    /\ pc[2] = "analyze"
    /\ image[1] # image[2]
    /\ call[1].dateRange # call[2].dateRange
    /\ result[1] = analyzeStockChart(call[1]).value
    /\ result[2] = Null

(***************************************************************************)
(* The meeting slot finder of src/Problem_3/solution.js.  A time string    *)
(* and the string solve returns are sequences of characters.  The input    *)
(* text is given by what its lines hold: the duration D of the first line  *)
(* and, for each of the P participants, the lines of busy intervals.       *)
(***************************************************************************)
WORK_START == 540

WORK_END == 1020

\* Number(...) of the part of timeStr before and after ':'
parseTime(timeStr) ==
    LET colon == CHOOSE i \in 1..Len(timeStr) : timeStr[i] = ":"
    IN  DigitsValue(timeStr, 1, colon - 1) * 60
          + DigitsValue(timeStr, colon + 1, Len(timeStr) - colon)

\* toString().padStart(2, '0')
padStart2(digits) == IF Len(digits) < 2 THEN <<"0">> \o digits ELSE digits

formatTime(minutes) ==
    padStart2(Digits(minutes \div 60)) \o <<":">> \o padStart2(Digits(minutes % 60))

\* allBusy after the two collecting loops: [parseTime(start), parseTime(end)]
\* of every line, participant after participant
RECURSIVE collectBusy(_)
collectBusy(schedules) ==
    IF Len(schedules) = 0 THEN <<>>
    ELSE [j \in 1..Len(schedules[1]) |->
             <<parseTime(schedules[1][j].start), parseTime(schedules[1][j].end)>>]
         \o collectBusy(Tail(schedules))

\* interval x put into a sequence sorted by start, after the intervals that
\* start no later (Array.prototype.sort is stable)
RECURSIVE insertByStart(_, _)
insertByStart(sorted, x) ==
    IF Len(sorted) = 0 THEN <<x>>
    ELSE IF sorted[Len(sorted)][1] - x[1] <= 0 THEN Append(sorted, x)
    ELSE Append(insertByStart(SubSeq(sorted, 1, Len(sorted) - 1), x), sorted[Len(sorted)])

\* allBusy.sort((a, b) => a[0] - b[0])
RECURSIVE sortByStart(_)
sortByStart(allBusy) ==
    IF Len(allBusy) = 0 THEN <<>>
    ELSE insertByStart(sortByStart(SubSeq(allBusy, 1, Len(allBusy) - 1)),
                       allBusy[Len(allBusy)])

\* the merging loop from allBusy[i] on (1-based), and the push after it
RECURSIVE mergeFrom(_, _, _, _, _)
mergeFrom(allBusy, i, currStart, currEnd, mergedBusy) ==
    IF i > Len(allBusy) THEN Append(mergedBusy, <<currStart, currEnd>>)
    ELSE IF allBusy[i][1] < currEnd
    THEN mergeFrom(allBusy, i + 1, currStart, Max(currEnd, allBusy[i][2]), mergedBusy)
    ELSE mergeFrom(allBusy, i + 1, allBusy[i][1], allBusy[i][2],
                   Append(mergedBusy, <<currStart, currEnd>>))

mergeBusy(allBusy) ==
    IF Len(allBusy) > 0
    THEN mergeFrom(allBusy, 2, allBusy[1][1], allBusy[1][2], <<>>)
    ELSE <<>>

\* `${formatTime(lastEnd)} ${formatTime(lastEnd + D)}`
slotString(lastEnd, D) == formatTime(lastEnd) \o <<" ">> \o formatTime(lastEnd + D)

NONE == <<"N", "O", "N", "E">>

\* the slot is taken at the start of the busy interval that follows the gap
slotBeforeStart(start, lastEnd, D) == slotString(start - D, D)

\* the slot returned for a gap of length >= D in front of a busy interval
slotInGap(start, lastEnd, D) == slotString(lastEnd, D)

\* the gap loop from mergedBusy[i] on, and the test of the gap up to WORK_END
RECURSIVE findGap(_, _, _, _)
findGap(mergedBusy, i, lastEnd, D) ==
    IF i > Len(mergedBusy)
    THEN IF WORK_END - lastEnd >= D THEN slotString(lastEnd, D) ELSE NONE
    ELSE IF mergedBusy[i][1] - lastEnd >= D
    THEN slotInGap(mergedBusy[i][1], lastEnd, D)
    ELSE findGap(mergedBusy, i + 1, Max(lastEnd, mergedBusy[i][2]), D)

solve(input) ==
    findGap(mergeBusy(sortByStart(collectBusy(input.schedules))), 1, WORK_START, input.D)

(***************************************************************************)
(* solve on schedules of two participants.  The busy intervals are drawn   *)
(* from the times below; up to MaxBusy of them are written, the first      *)
(* ones in the schedule of participant 1 and the others in that of         *)
(* participant 2.                                                          *)
(***************************************************************************)
MaxBusy == 2

TimeStrings ==
    { <<"0", "9", ":", "0", "0">>, <<"1", "0", ":", "0", "0">>,
      <<"1", "6", ":", "3", "0">>, <<"1", "8", ":", "0", "0">> }

Durations == {30, 60}

\* well-formed busy intervals: start <= end
BusyLines ==
    { l \in [start : TimeStrings, end : TimeStrings] : parseTime(l.start) <= parseTime(l.end) }

BusyLists == UNION { [1..k -> BusyLines] : k \in 0..MaxBusy }

SlotInputs ==
    UNION { { [D |-> d, schedules |-> <<SubSeq(l, 1, k), SubSeq(l, k + 1, Len(l))>>] :
                d \in Durations, k \in 0..Len(l) } :
            l \in BusyLists }

\* the example of main and of the README: 2 participants, D = 60, busy
\* 09:00-10:00 and 12:00-13:00, 11:00-12:30 and 15:00-16:00
SampleInput ==
    [D |-> 60,
     schedules |->
        << <<[start |-> <<"0", "9", ":", "0", "0">>, end |-> <<"1", "0", ":", "0", "0">>],
             [start |-> <<"1", "2", ":", "0", "0">>, end |-> <<"1", "3", ":", "0", "0">>]>>,
           <<[start |-> <<"1", "1", ":", "0", "0">>, end |-> <<"1", "2", ":", "3", "0">>],
             [start |-> <<"1", "5", ":", "0", "0">>, end |-> <<"1", "6", ":", "0", "0">>]>> >>]

InitSlots ==
    /\ AnalyzerIdle
    /\ mapper = None
    /\ predictor = None
    /\ call = [fn |-> "Problem_3", arg |-> None]
    /\ result = None

Solve ==
    /\ call.fn = "Problem_3"
    /\ \/ \E input \in SlotInputs :
            /\ call' = [fn |-> "solve", arg |-> input]
            /\ result' = solve(input)
       \/ /\ call' = [fn |-> "solve", arg |-> SampleInput]
          /\ result' = solve(SampleInput)
    /\ UNCHANGED <<analyzerVars, mapper, predictor>>

NextSlots == Solve

SpecSlots == InitSlots /\ [][NextSlots]_vars

(***************************************************************************)
(* Properties of solve, checked under SpecSlots                            *)
(***************************************************************************)
\* the busy intervals of all participants, in minutes
BusyOf(input) == collectBusy(input.schedules)

\* [S, E) meets no interval of busy; an interval that starts and ends at
\* the same minute is met when that minute is after S and before E
FreeForAll(busy, S, E) ==
    \A k \in 1..Len(busy) : ~(busy[k][1] < E /\ S < busy[k][2])

\* S is the earliest start, from 09:00 on, of D minutes free for all
EarliestFree(busy, S, D) ==
    /\ S >= WORK_START
    /\ FreeForAll(busy, S, S + D)
    /\ \A T \in WORK_START..(S - 1) : ~FreeForAll(busy, T, T + D)

\* no D minutes inside the work day are free for all
NoneFree(busy, D) ==
    \A S \in WORK_START..(WORK_END - D) : ~FreeForAll(busy, S, S + D)

\* the minutes read from the two times of a returned slot
SlotStart(slot) == parseTime(SubSeq(slot, 1, (CHOOSE i \in 1..Len(slot) : slot[i] = " ") - 1))

SlotEnd(slot) == parseTime(SubSeq(slot, (CHOOSE i \in 1..Len(slot) : slot[i] = " ") + 1, Len(slot)))

\* C22: with well-formed busy intervals and D > 0, when solve returns a slot
\* "S E" then E = S + D, [S, E) overlaps no busy interval of any participant
\* and S is the earliest time >= 09:00 with that property; for the README
\* sample the result is "10:00 11:00".
C22_EarliestFreeSlot ==
    call.fn = "solve"
    => /\ result # NONE
            => /\ SlotEnd(result) = SlotStart(result) + call.arg.D
               /\ EarliestFree(BusyOf(call.arg), SlotStart(result), call.arg.D)
       /\ call.arg = SampleInput
            => result = <<"1", "0", ":", "0", "0", " ", "1", "1", ":", "0", "0">>

\* a slot that starts where one busy interval ends and is not the first gap
\* of the day: 09:00-10:00 is busy, the slot is 10:00-11:00
C22_Witness ==
    /\ call.fn = "solve"
    /\ call.arg # SampleInput
    /\ call.arg.D = 60
    /\ Len(BusyOf(call.arg)) = MaxBusy
    /\ result = <<"1", "0", ":", "0", "0", " ", "1", "1", ":", "0", "0">>
    /\ \E k \in 1..MaxBusy : BusyOf(call.arg)[k] = <<540, 600>>
    /\ \E k \in 1..MaxBusy : BusyOf(call.arg)[k][1] = 990

\* C23: every slot solve returns lies within the work day 09:00-17:00, and
\* solve returns "NONE" whenever no interval of length D free for all
\* participants exists inside the work day, also when some busy interval
\* starts after 17:00.
C23_WithinWorkDay ==
    call.fn = "solve"
    => /\ result # NONE
            => /\ SlotStart(result) >= WORK_START
               /\ SlotEnd(result) = SlotStart(result) + call.arg.D
               /\ SlotEnd(result) <= WORK_END
       /\ NoneFree(BusyOf(call.arg), call.arg.D) => result = NONE

(***************************************************************************)
(* The updated GPS processing of src/Problem_2/solution.js (lines 151 on). *)
(* A point is [lat, lon, gpstime]: gpstime is the instant new Date reads   *)
(* from it, in seconds, and the points lie on one meridian, lat counted in *)
(* metres along it, so that geolib.getDistance, which is not part of the   *)
(* repository, is the difference of the two lat.                           *)
(***************************************************************************)
JITTER_SPEED_THRESHOLD_KMH == 120

IDLING_SPEED_THRESHOLD_KMH == 3

IDLING_TIME_THRESHOLD_SEC == 120

WINDOW_SIZE == 3

getDistance(point1, point2) == AbsInt(point1.lat - point2.lat)

\* new Date(b.gpstime) - new Date(a.gpstime), in milliseconds
msBetween(a, b) == 1000 * (b.gpstime - a.gpstime)

calculateSpeed(point1, point2) ==
    LET distanceMeters  == Num(getDistance(point1, point2))
        timeDiffSeconds == Div(Num(msBetween(point1, point2)), Num(1000))
    IN  IF StrictEq(timeDiffSeconds, Num(0)) THEN Num(0)
        ELSE Div(Div(distanceMeters, Num(1000)), Div(timeDiffSeconds, Num(3600)))

\* Math.ceil(n / 2)
ceilHalf(n) == (n + 1) \div 2

\* the number of the last pointsToCheck clean points from which current is
\* reached faster than the threshold
suspiciousCount(current, recentCleanPoints, pointsToCheck) ==
    Cardinality({ i \in (Len(recentCleanPoints) - pointsToCheck + 1)..Len(recentCleanPoints) :
                    Lt(Num(JITTER_SPEED_THRESHOLD_KMH),
                       calculateSpeed(recentCleanPoints[i], current)) })

isJitter(current, recentCleanPoints) ==
    IF Len(recentCleanPoints) = 0 THEN FALSE
    ELSE LET pointsToCheck == Min(WINDOW_SIZE, Len(recentCleanPoints))
         IN  suspiciousCount(current, recentCleanPoints, pointsToCheck) >= ceilHalf(pointsToCheck)

\* data.sort((a, b) => new Date(a.gpstime) - new Date(b.gpstime)); the sort
\* is stable
RECURSIVE insertByTime(_, _)
insertByTime(sorted, p) ==
    IF Len(sorted) = 0 THEN <<p>>
    ELSE IF msBetween(p, sorted[Len(sorted)]) <= 0 THEN Append(sorted, p)
    ELSE Append(insertByTime(SubSeq(sorted, 1, Len(sorted) - 1), p), sorted[Len(sorted)])

RECURSIVE sortByTime(_)
sortByTime(data) ==
    IF Len(data) = 0 THEN <<>>
    ELSE insertByTime(sortByTime(SubSeq(data, 1, Len(data) - 1)), data[Len(data)])

\* no point is skipped for its timestamp
isDuplicateTimestampNever(current, cleanPath) == FALSE

\* cleanPath.length > 0 and timeDiff === 0 against the last clean point
isDuplicateTimestamp(current, cleanPath) ==
    Len(cleanPath) > 0 /\ msBetween(cleanPath[Len(cleanPath)], current) = 0

\* idlingPoints.some(p => p.lat === idleStartPoint.lat && p.lon === idleStartPoint.lon)
isDuplicate(idlingPoints, idleStartPoint) ==
    \E k \in 1..Len(idlingPoints) :
        idlingPoints[k].lat = idleStartPoint.lat /\ idlingPoints[k].lon = idleStartPoint.lon

\* the idling sequence that started at st.idleStartPoint ended at endPoint:
\* it is pushed when it lasted IDLING_TIME_THRESHOLD_SEC and its place is
\* not recorded yet
recordIdling(st, endPoint) ==
    LET idleDuration == endPoint.gpstime - st.idleStartTime.time
    IN  IF idleDuration >= IDLING_TIME_THRESHOLD_SEC
           /\ ~isDuplicate(st.idlingPoints, st.idleStartPoint)
        THEN [st EXCEPT !.idlingPoints =
                            Append(@, [lat |-> st.idleStartPoint.lat,
                                       lon |-> st.idleStartPoint.lon,
                                       gpstime |-> st.idleStartPoint.gpstime,
                                       duration |-> idleDuration,
                                       startTime |-> st.idleStartTime.time,
                                       endTime |-> endPoint.gpstime]),
                        !.statistics.idlingEvents = @ + 1]
        ELSE st

\* the idling detection after current was pushed onto the clean path
detectIdling(st, current) ==
    IF Len(st.cleanPath) < 2 THEN st
    ELSE LET prev == st.cleanPath[Len(st.cleanPath) - 1]
         IN  IF Lt(calculateSpeed(prev, current), Num(IDLING_SPEED_THRESHOLD_KMH))
             THEN IF st.idleStartTime = Null
                  THEN [st EXCEPT !.idleStartTime = [time |-> prev.gpstime],
                                  !.idleStartPoint = prev]
                  ELSE st
             ELSE IF st.idleStartTime # Null
                  THEN [recordIdling(st, prev) EXCEPT !.idleStartTime = Null,
                                                      !.idleStartPoint = Null]
                  ELSE st

\* one turn of the loop over the sorted data
processPoint(st, current) ==
    IF isDuplicateTimestamp(current, st.cleanPath)
    THEN [st EXCEPT !.statistics.duplicateTimestamps = @ + 1]
    ELSE IF Len(st.cleanPath) >= 1 /\ isJitter(current, st.cleanPath)
    THEN [st EXCEPT !.jitters = Append(@, current), !.statistics.jittersRemoved = @ + 1]
    ELSE detectIdling([st EXCEPT !.cleanPath = Append(@, current),
                                 !.statistics.cleanPoints = @ + 1],
                      current)

RECURSIVE processFrom(_, _, _)
processFrom(data, i, st) ==
    IF i > Len(data) THEN st ELSE processFrom(data, i + 1, processPoint(st, data[i]))

\* the test of the idling sequence the journey ends in
finishIdling(st) ==
    IF st.idleStartTime # Null /\ Len(st.cleanPath) > 0
    THEN recordIdling(st, st.cleanPath[Len(st.cleanPath)])
    ELSE st

\* what processGPSData returns
returned(st) ==
    [cleanPath |-> st.cleanPath, jitters |-> st.jitters,
     idlingPoints |-> st.idlingPoints, statistics |-> st.statistics]

processGPSData(data) ==
    returned(finishIdling(processFrom(sortByTime(data), 1,
        [cleanPath |-> <<>>, jitters |-> <<>>, idlingPoints |-> <<>>,
         statistics |-> [totalPoints |-> Len(data), cleanPoints |-> 0, jittersRemoved |-> 0,
                         idlingEvents |-> 0, duplicateTimestamps |-> 0],
         idleStartTime |-> Null, idleStartPoint |-> Null])))

(***************************************************************************)
(* processGPSData on journeys of up to MaxGps points.  A journey starts at *)
(* time 0; each further point is at one of two places and follows the      *)
(* point before it at once, after a second or after 130 seconds.  The      *)
(* data is handed over in time order; the journeys that are not of the     *)
(* full length are also handed over in the reverse order.                  *)
(***************************************************************************)
MaxGps == 5

Places == {0, 400}

TimeGaps == {0, 1, 130}

GpsPoint(lat, gpstime) == [lat |-> lat, lon |-> 0, gpstime |-> gpstime]

RECURSIVE Journeys(_)
Journeys(n) ==
    IF n = 0 THEN {<<>>}
    ELSE IF n = 1 THEN { <<GpsPoint(x, 0)>> : x \in Places }
    ELSE { Append(j, GpsPoint(x, j[n - 1].gpstime + g)) :
             j \in Journeys(n - 1), x \in Places, g \in TimeGaps }

Reversed(s) == [i \in 1..Len(s) |-> s[Len(s) + 1 - i]]

GpsInputs ==
    Journeys(MaxGps)
      \cup UNION { Journeys(n) \cup { Reversed(j) : j \in Journeys(n) } : n \in 0..(MaxGps - 1) }

InitGps ==
    /\ AnalyzerIdle
    /\ mapper = None
    /\ predictor = None
    /\ call = [fn |-> "GPS", arg |-> None]
    /\ result = None

ProcessGPSData ==
    /\ call.fn = "GPS"
    /\ \E data \in GpsInputs :
        /\ call' = [fn |-> "processGPSData", arg |-> data]
        /\ result' = processGPSData(data)
    /\ UNCHANGED <<analyzerVars, mapper, predictor>>

NextGps == ProcessGPSData

SpecGps == InitGps /\ [][NextGps]_vars

(***************************************************************************)
(* Properties of processGPSData, checked under SpecGps                     *)
(***************************************************************************)
\* the speed from a to b is above v km/h: 3600 * metres > 1000 * v * seconds
FasterThan(a, b, v) ==
    b.gpstime # a.gpstime /\ 18 * getDistance(a, b) > 5 * v * (b.gpstime - a.gpstime)

\* the speed from a to b is below v km/h
SlowerThan(a, b, v) ==
    b.gpstime = a.gpstime \/ 18 * getDistance(a, b) < 5 * v * (b.gpstime - a.gpstime)

\* C24: every point whose speed relative to the clean-path point right
\* before it exceeds 120 km/h is put in jitters and not in cleanPath, so no
\* two consecutive points of the returned cleanPath imply a speed above
\* 120 km/h.
C24_NoFastStepInCleanPath ==
    call.fn = "processGPSData"
    => \A i \in 1..(Len(result.cleanPath) - 1) :
          ~FasterThan(result.cleanPath[i], result.cleanPath[i + 1], JITTER_SPEED_THRESHOLD_KMH)

\* cleanPath[a..b] is a slow stretch: every step of it is below 3 km/h and
\* it can be extended at neither end
SlowStretch(path, a, b) ==
    /\ a < b
    /\ \A i \in a..(b - 1) : SlowerThan(path[i], path[i + 1], IDLING_SPEED_THRESHOLD_KMH)
    /\ a > 1 => ~SlowerThan(path[a - 1], path[a], IDLING_SPEED_THRESHOLD_KMH)
    /\ b < Len(path) => ~SlowerThan(path[b], path[b + 1], IDLING_SPEED_THRESHOLD_KMH)

\* the entries of idlingPoints that record the point p
EntriesFor(idlingPoints, p) ==
    { k \in 1..Len(idlingPoints) :
        idlingPoints[k].lat = p.lat /\ idlingPoints[k].startTime = p.gpstime }

\* C25: a stretch of the clean path below 3 km/h that lasts more than 120
\* seconds has its first point recorded in idlingPoints, one entry per
\* stretch, whether it ends by the vehicle moving again or with the data;
\* no idling point is recorded for a stretch shorter than 120 seconds.
C25_IdlingRecordedPerStretch ==
    call.fn = "processGPSData"
    => LET path == result.cleanPath
       IN  /\ \A a \in 1..Len(path) : \A b \in 1..Len(path) :
                 SlowStretch(path, a, b)
                    => /\ path[b].gpstime - path[a].gpstime > IDLING_TIME_THRESHOLD_SEC
                          => Cardinality(EntriesFor(result.idlingPoints, path[a])) = 1
                       /\ path[b].gpstime - path[a].gpstime < IDLING_TIME_THRESHOLD_SEC
                          => EntriesFor(result.idlingPoints, path[a]) = {}
           /\ \A k \in 1..Len(result.idlingPoints) :
                 \E a \in 1..Len(path) : \E b \in 1..Len(path) :
                    /\ SlowStretch(path, a, b)
                    /\ k \in EntriesFor(result.idlingPoints, path[a])

\* C30: every input point is accounted for exactly once, in cleanPath, in
\* jitters or skipped as a duplicate timestamp: totalPoints = cleanPoints +
\* jittersRemoved + duplicateTimestamps, the counts are the lengths of
\* cleanPath, jitters and idlingPoints, the first point in time order is in
\* cleanPath and cleanPath timestamps are strictly increasing.
C30_EveryPointAccounted ==
    call.fn = "processGPSData"
    => LET st == result.statistics
       IN  /\ st.totalPoints = Len(call.arg)
           /\ st.totalPoints = st.cleanPoints + st.jittersRemoved + st.duplicateTimestamps
           /\ st.cleanPoints = Len(result.cleanPath)
           /\ st.jittersRemoved = Len(result.jitters)
           /\ st.idlingEvents = Len(result.idlingPoints)
           /\ Len(call.arg) > 0 => result.cleanPath[1] = sortByTime(call.arg)[1]
           /\ \A i \in 1..(Len(result.cleanPath) - 1) :
                 result.cleanPath[i].gpstime < result.cleanPath[i + 1].gpstime
           /\ \A p \in { call.arg[i] : i \in 1..Len(call.arg) } :
                 Cardinality({ i \in 1..Len(call.arg) : call.arg[i] = p })
                    >= Cardinality({ i \in 1..Len(result.cleanPath) : result.cleanPath[i] = p })
                         + Cardinality({ i \in 1..Len(result.jitters) : result.jitters[i] = p })

\* a journey handed over in reverse order with a point of each kind: one
\* skipped for its timestamp, one removed as jitter, two kept
C30_Witness ==
    /\ call.fn = "processGPSData"
    /\ Len(call.arg) = 4
    /\ call.arg # sortByTime(call.arg)
    /\ result.statistics.duplicateTimestamps = 1
    /\ result.statistics.jittersRemoved = 1
    /\ result.statistics.cleanPoints = 2

====
